---- MODULE Spec2Model ----
(***************************************************************************)
(* A model of the chunkflow upload engine.                                 *)
(*                                                                         *)
(*   - ConcurrencyController (packages/shared/src/concurrency-controller)  *)
(*     over p-limit: a FIFO queue, an active count and one deferred start  *)
(*     check per enqueue; updateLimit replaces the limiter object.         *)
(*   - UploadStorage (IndexedDB progress store): every request is one      *)
(*     transaction; transactions on the object store run in the order in   *)
(*     which they were created.                                            *)
(*   - UploadTask, as the specification describes it (its source file is   *)
(*     not part of the tree), running its chunk uploads through the        *)
(*     controller and writing its progress through the store.              *)
(*   - The UploadManager batch operations applied to the task.             *)
(***************************************************************************)
EXTENDS Integers, Sequences, FiniteSets, TLC

\* ------------------------------------------------------------------ bounds
\* functions (work units) submitted through ConcurrencyController.run
MaxFns == 4
\* largest concurrency limit tried
MaxLimit == 2
\* limiter objects created over a controller's life (1 + updateLimit calls)
MaxGens == 2

\* chunks of a file
MaxChunks == 2
\* calls made on the progress store by its clients
MaxCalls == 2
\* largest value of the clock (Date.now())
MaxClock == 1
\* plugins a manager is given, and close() calls made on it
MaxPlugins == 2
MaxCloses == 1
\* handlers subscribed to an event bus
MaxHandlers == 3
\* the largest file served, in bytes
MaxFile == 3
MaxHooks == 3

Fns == 1..MaxFns
Limits == 1..MaxLimit
Chunks == 0..(MaxChunks - 1)

VARIABLES
    currentLimit,   \* ConcurrencyController.currentLimit
    limiter,        \* ConcurrencyController.limiter: index into limiters
    limiters,       \* every p-limit object created so far
    fns,            \* the functions handed to run, in submission order
    nSubmitted,     \* how many functions were handed to run
    dbOpen,         \* UploadStorage.db !== null
    store,          \* the IndexedDB object store "uploads", keyed by taskId
    idbQueue,       \* IndexedDB transactions created and not yet run
    calls,          \* the calls made on UploadStorage and their outcome
    now,            \* Date.now()
    status,         \* UploadTask: getStatus()
    token,          \* UploadTask: the upload token ("none", "pending", "ok")
    hash,           \* UploadTask: the file hash ("none", "running", "known")
    merge,          \* UploadTask: mergeFile ("none", "pending")
    uploaded,       \* UploadTask: the chunk indices uploaded
    unit,           \* UploadTask: the chunk upload each submitted function does
    plan,           \* UploadTask: the number of chunks of the file
    options,        \* UploadTask: the options createTask passed
    recordCreated,  \* UploadTask: the progress record was written once
    emitted,        \* the events the task emitted in its latest step
    adjOptions,     \* ChunkSizeAdjuster.options
    adjCurrent,     \* ChunkSizeAdjuster.currentSize
    adjReturned,    \* what the latest adjust call returned
    adjCalls,       \* adjust calls since construction or the latest reset
    adjRun,         \* what those calls reported: "fast", "slow" or "mixed"
    initialized,    \* UploadManager.initialized
    tasks,          \* UploadManager.tasks: the keys of the Map, in insertion order
    taskStatus,     \* getStatus() of every task createTask made ("none": not made)
    mgrInits,       \* init() calls waiting for storage.init()
    mgrCreated,     \* createTask calls made
    mgrDeleted,     \* the ids deleteTask removed
    mgrClearing,    \* clearCompletedTasks: the tasks still to look at
    mgrThrew,       \* a call on the manager has thrown
    taskKey,        \* the id of every task object (Undefined: not made)
    taskSeed,       \* the resume data a task object was constructed with
    mgrCloses,      \* close() calls made
    mgrFailed,      \* a deleteRecord the manager awaited has failed
    plugins,        \* UploadManager.plugins, in use() order
    mgrReturned,    \* what the latest call on the manager returned, if a number or counts
    hooked,         \* the plugin hooks the latest step called: <<hook, plugin, task>>
    mgrResume,      \* the resumeTask call under way, or the latest one's outcome
    handlers,       \* the event bus: the handlers subscribed, in on() order
    busLog,         \* the latest emit: the handlers it called, and whether it threw
    httpLast,       \* the latest request to the file endpoint and its reply
    pluginStats,    \* StatisticsPlugin.stats, and what the latest getStats() returned
    tcp,            \* TCPChunkSizeAdjuster: options, currentSize, ssthresh, state
    boot            \* UploadManager.init(): the calls under way and what they did

ccVars == <<currentLimit, limiter, limiters, fns, nSubmitted>>
stVars == <<dbOpen, store, idbQueue, calls, now>>
tkVars == <<status, token, hash, merge, uploaded, unit, plan, options,
            recordCreated, emitted>>
adjVars == <<adjOptions, adjCurrent, adjReturned, adjCalls, adjRun>>
regVars == <<tasks, taskStatus, taskKey, taskSeed>>
ghostVars == <<mgrCreated, mgrDeleted, mgrClearing, mgrThrew, mgrCloses, mgrFailed>>
mgrVars == <<initialized, mgrInits, regVars, ghostVars, plugins, hooked, mgrResume,
             mgrReturned>>
extVars == <<pluginStats, tcp, boot>>
auxVars == <<handlers, busLog, httpLast, extVars>>
vars == <<currentLimit, limiter, limiters, fns, nSubmitted,
          dbOpen, store, idbQueue, calls, now,
          status, token, hash, merge, uploaded, unit, plan, options,
          recordCreated, emitted,
          adjOptions, adjCurrent, adjReturned, adjCalls, adjRun,
          initialized, tasks, taskStatus, mgrInits, mgrCreated, mgrDeleted,
          mgrClearing, mgrThrew, taskKey, taskSeed, mgrCloses, mgrFailed,
          plugins, hooked, mgrResume, handlers, busLog, httpLast, mgrReturned,
          pluginStats, tcp, boot>>
\* what the controller's operations leave alone, and what the store's do
nonCc == <<stVars, tkVars, adjVars, mgrVars, auxVars>>
nonSt == <<ccVars, tkVars, adjVars, mgrVars, auxVars>>
nonTk == <<adjVars, mgrVars, auxVars>>
nonAdj == <<ccVars, stVars, tkVars, mgrVars, auxVars>>
nonMgr == <<ccVars, tkVars, adjVars, auxVars, store, calls, now>>

\* the members of a sequence
Members(q) == {q[i] : i \in 1..Len(q)}

\* ------------------------------------------------- p-limit, as the code uses it
\* pLimit(n): a fresh limiter
NewLimiter(n) ==
    [concurrency |-> n, queue |-> <<>>, activeCount |-> 0, checks |-> 0]

\* A function not yet handed to run
NoFn ==
    [st |-> "none", lim |-> 0, waited |-> FALSE, atUpdate |-> FALSE,
     atClear |-> FALSE]

\* the start check p-limit schedules with every enqueue
CanStartNoLimit(l) == Len(l.queue) > 0
CanStart(l) == l.activeCount < l.concurrency /\ Len(l.queue) > 0

\* limiter(fn): enqueue fn and schedule one start check
Enqueue(l, ids) ==
    [l EXCEPT !.queue = @ \o ids, !.checks = @ + Len(ids)]

\* dequeue the head of the queue and start it
StartHeadFree(l) == [l EXCEPT !.queue = Tail(@)]
StartLast(l) ==
    [l EXCEPT !.queue = SubSeq(@, 1, Len(@) - 1), !.activeCount = @ + 1]
StartHead(l) ==
    [l EXCEPT !.queue = Tail(@), !.activeCount = @ + 1]

\* p-limit's next(): a function settled; release the slot, start the head
NextNoDequeue(l) == [l EXCEPT !.activeCount = @ - 1]
NextKeepsSlot(l) == l
Next_(l) ==
    LET r == [l EXCEPT !.activeCount = @ - 1]
    IN  IF Len(r.queue) > 0 THEN StartHead(r) ELSE r

\* the function table after limiter g went from l to r: the function that
\* left the queue has started (byNext: through next(), after a settlement)
Started(g, l, r, byNext) ==
    [f \in Fns |->
        IF f \in Members(l.queue) \ Members(r.queue)
        THEN [fns[f] EXCEPT !.st = "running", !.waited = byNext]
        ELSE fns[f]]

\* ------------------------------------------------- ConcurrencyController
CCStart ==
    /\ currentLimit \in Limits
    /\ limiter = 1
    /\ limiters = <<NewLimiter(currentLimit)>>
    /\ fns = [f \in Fns |-> NoFn]
    /\ nSubmitted = 0

\* run(fn), k times in a row
RunCC(k) ==
    /\ nSubmitted + k <= MaxFns
    /\ LET ids == [i \in 1..k |-> nSubmitted + i] IN
        /\ limiters' = [limiters EXCEPT ![limiter] = Enqueue(@, ids)]
        /\ fns' = [f \in Fns |->
                     IF f \in Members(ids)
                     THEN [NoFn EXCEPT !.st = "queued", !.lim = limiter]
                     ELSE fns[f]]
        /\ nSubmitted' = nSubmitted + k
    /\ UNCHANGED <<currentLimit, limiter>>

\* run(fn)
Run == RunCC(1) /\ UNCHANGED nonCc

\* the deferred start check of one enqueue on limiter g
CheckCC(g) ==
    /\ g \in 1..Len(limiters)
    /\ limiters[g].checks > 0
    /\ LET l == [limiters[g] EXCEPT !.checks = @ - 1]
           r == IF CanStart(l) THEN StartHead(l) ELSE l
       IN  /\ limiters' = [limiters EXCEPT ![g] = r]
           /\ fns' = Started(g, l, r, FALSE)
    /\ UNCHANGED <<currentLimit, limiter, nSubmitted>>

Check(g) == CheckCC(g) /\ UNCHANGED nonCc

\* a running function settles (ok: resolves, ~ok: rejects); p-limit's next()
SettleCC(f, ok) ==
    /\ fns[f].st = "running"
    /\ LET g == fns[f].lim
           l == limiters[g]
           r == Next_(l)
           t == Started(g, l, r, TRUE)
       IN  /\ limiters' = [limiters EXCEPT ![g] = r]
           /\ fns' = [t EXCEPT ![f] = [NoFn EXCEPT !.st = IF ok THEN "resolved" ELSE "rejected"]]
    /\ UNCHANGED <<currentLimit, limiter, nSubmitted>>

Settle(f, ok) == SettleCC(f, ok) /\ UNCHANGED nonCc

\* the arguments of updateLimit that are no limit
BadLimits == {-1, 0}

\* updateLimit(newLimit): throws if newLimit <= 0, otherwise sets
\* currentLimit and replaces the limiter by pLimit(newLimit)
UpdateLimitLax(n) ==
    [threw |-> n < 0,
     currentLimit |-> IF n < 0 THEN currentLimit ELSE n,
     limiters |-> IF n < 0 THEN limiters ELSE Append(limiters, NewLimiter(n)),
     limiter |-> IF n < 0 THEN limiter ELSE Len(limiters) + 1]
UpdateLimitResult(n) ==
    IF n <= 0
    THEN [threw |-> TRUE, currentLimit |-> currentLimit,
          limiters |-> limiters, limiter |-> limiter]
    ELSE [threw |-> FALSE, currentLimit |-> n,
          limiters |-> Append(limiters, NewLimiter(n)),
          limiter |-> Len(limiters) + 1]

\* getLimit()
GetLimit == currentLimit

UpdateLimit(n) ==
    /\ UNCHANGED nonCc
    /\ Len(limiters) < MaxGens
    /\ LET r == UpdateLimitResult(n) IN
        /\ currentLimit' = r.currentLimit
        /\ limiters' = r.limiters
        /\ limiter' = r.limiter
        /\ fns' = [f \in Fns |->
                     IF fns[f].st = "queued" /\ ~r.threw
                     THEN [fns[f] EXCEPT !.atUpdate = TRUE]
                     ELSE fns[f]]
    /\ UNCHANGED nSubmitted

\* pendingCount and activeCount: those of the current limiter
PendingCount == Len(limiters[limiter].queue)
ActiveCount == limiters[limiter].activeCount

\* clearQueue(): this.limiter.clearQueue(); the functions waiting in a
\* limiter that updateLimit replaced stay queued there (atClear)
ClearQueueCC ==
    /\ limiters' = [limiters EXCEPT ![limiter].queue = <<>>]
    /\ fns' = [f \in Fns |->
                 IF fns[f].st = "queued" /\ fns[f].lim = limiter
                 THEN [NoFn EXCEPT !.st = "cleared"]
                 ELSE IF fns[f].st = "queued"
                 THEN [fns[f] EXCEPT !.atClear = TRUE]
                 ELSE fns[f]]
    /\ UNCHANGED <<currentLimit, limiter, nSubmitted>>

ClearQueue ==
    /\ \E f \in Fns : fns[f].st = "queued"
    /\ ClearQueueCC
    /\ UNCHANGED nonCc

CCNext ==
    \/ Run
    \/ \E g \in 1..MaxGens : Check(g)
    \/ \E f \in Fns, ok \in BOOLEAN : Settle(f, ok)
    \/ \E n \in Limits \cup BadLimits : UpdateLimit(n)
    \/ ClearQueue


\* ------------------------------------------------- UploadStorage (IndexedDB)
\* the keys (taskIds) used
TaskIds == {1}
\* another taskId, which a patch may name
OtherIds == {2}
\* upload tokens, as opaque values ("" in a patch: the field is not named)
Tokens == {"tokA", "tokB"}

\* no record under a key (getRecord answers null)
NoRecord ==
    [taskId |-> 0, fileInfo |-> "", uploadedChunks |-> {}, uploadToken |-> "",
     createdAt |-> 0, updatedAt |-> 0]

\* an UploadRecord
Record(t, info, chunks, tok, c, u) ==
    [taskId |-> t, fileInfo |-> info, uploadedChunks |-> chunks,
     uploadToken |-> tok, createdAt |-> c, updatedAt |-> u]

\* a Partial<UploadRecord>: a field left out is marked ({-1}, "", 0)
NoPatch == [taskId |-> 0, uploadedChunks |-> {-1}, uploadToken |-> ""]
ChunksPatch(cs) == [NoPatch EXCEPT !.uploadedChunks = cs]
TokenPatch(tok) == [NoPatch EXCEPT !.uploadToken = tok]
TaskIdPatch(t) == [NoPatch EXCEPT !.taskId = t]
Patches ==
    {NoPatch, TokenPatch("tokB")}
        \cup {ChunksPatch({c}) : c \in Chunks}
        \cup {TaskIdPatch(t) : t \in OtherIds}

\* a merge that takes every patch field, named or not
MergeReplace(existing, updates, taskId, t) ==
    [existing EXCEPT
        !.uploadedChunks = IF updates.uploadedChunks = {-1} THEN @
                           ELSE updates.uploadedChunks,
        !.uploadToken = updates.uploadToken,
        !.taskId = taskId,
        !.updatedAt = t]

\* { ...existingRecord, ...updates, taskId, updatedAt: Date.now() }
Merge(existing, updates, taskId, t) ==
    [existing EXCEPT
        !.uploadedChunks = IF updates.uploadedChunks = {-1} THEN @
                           ELSE updates.uploadedChunks,
        !.uploadToken = IF updates.uploadToken = "" THEN @ ELSE updates.uploadToken,
        !.taskId = taskId,
        !.updatedAt = t]

\* a call on the store and a transaction of the object store
Call(op, key, patch) == [op |-> op, key |-> key, patch |-> patch, result |-> "pending"]
Txn(op, key, rec, patch, call) ==
    [op |-> op, key |-> key, rec |-> rec, patch |-> patch, call |-> call]

\* the call table with call c (0: a caller that ignores the outcome) settled
Settled(cs, c, result) ==
    IF c = 0 THEN cs ELSE [cs EXCEPT ![c].result = result]

\* a store that takes itself for usable at all times
IsAvailableAlways == TRUE

\* the store is usable: isSupported && db !== null
IsAvailable == dbOpen

\* the state of a store nobody uses
StoreIdle ==
    /\ dbOpen = FALSE
    /\ store = [k \in TaskIds |-> NoRecord]
    /\ idbQueue = <<>>
    /\ calls = <<>>
    /\ now = 0

\* the records a database can hold from an earlier session
SavedRecord(k) == Record(k, "fileA", {}, "tokA", 0, 0)

StoreStart ==
    /\ dbOpen = FALSE
    /\ store \in [TaskIds -> {NoRecord} \cup {SavedRecord(k) : k \in TaskIds}]
    /\ \A k \in TaskIds : store[k].taskId \in {0, k}
    /\ idbQueue = <<>>
    /\ calls = <<>>
    /\ now = 0

\* init(): indexedDB.open succeeds
StorageInit ==
    /\ ~dbOpen
    /\ dbOpen' = TRUE
    /\ UNCHANGED <<store, idbQueue, calls, now, nonSt>>

\* close()
StorageClose ==
    /\ dbOpen
    /\ dbOpen' = FALSE
    /\ UNCHANGED <<store, idbQueue, calls, now, nonSt>>

\* saveRecord(record): one readwrite transaction putting the record
SaveRecord(rec) ==
    /\ Len(calls) < MaxCalls
    /\ LET c == Len(calls) + 1 IN
        IF ~IsAvailable
        THEN /\ calls' = Append(calls, [Call("save", rec.taskId, NoPatch)
                                          EXCEPT !.result = "STORAGE_UNAVAILABLE"])
             /\ UNCHANGED idbQueue
        ELSE /\ calls' = Append(calls, Call("save", rec.taskId, NoPatch))
             /\ idbQueue' = Append(idbQueue, Txn("put", rec.taskId, rec, NoPatch, c))
    /\ UNCHANGED <<dbOpen, store, now, nonSt>>

\* updateRecord(taskId, updates): first a readonly transaction (getRecord);
\* the merge and the saveRecord follow when it has answered
UpdateRecord(k, updates) ==
    /\ Len(calls) < MaxCalls
    /\ LET c == Len(calls) + 1 IN
        IF ~IsAvailable
        THEN /\ calls' = Append(calls, [Call("update", k, updates)
                                          EXCEPT !.result = "STORAGE_UNAVAILABLE"])
             /\ UNCHANGED idbQueue
        ELSE /\ calls' = Append(calls, Call("update", k, updates))
             /\ idbQueue' = Append(idbQueue, Txn("get", k, NoRecord, updates, c))
    /\ UNCHANGED <<dbOpen, store, now, nonSt>>

\* deleteRecord(taskId): one readwrite transaction
DeleteRecord(k) ==
    /\ Len(calls) < MaxCalls
    /\ LET c == Len(calls) + 1 IN
        IF ~IsAvailable
        THEN /\ calls' = Append(calls, [Call("delete", k, NoPatch)
                                          EXCEPT !.result = "STORAGE_UNAVAILABLE"])
             /\ UNCHANGED idbQueue
        ELSE /\ calls' = Append(calls, Call("delete", k, NoPatch))
             /\ idbQueue' = Append(idbQueue, Txn("delete", k, NoRecord, NoPatch, c))
    /\ UNCHANGED <<dbOpen, store, now, nonSt>>

\* clearAll(): one readwrite transaction clearing the object store
ClearAll ==
    /\ Len(calls) < MaxCalls
    /\ LET c == Len(calls) + 1 IN
        IF ~IsAvailable
        THEN /\ calls' = Append(calls, [Call("clear", 0, NoPatch)
                                          EXCEPT !.result = "STORAGE_UNAVAILABLE"])
             /\ UNCHANGED idbQueue
        ELSE /\ calls' = Append(calls, Call("clear", 0, NoPatch))
             /\ idbQueue' = Append(idbQueue, Txn("clear", 0, NoRecord, NoPatch, c))
    /\ UNCHANGED <<dbOpen, store, now, nonSt>>

\* the queue and the call table after the readonly transaction of an
\* updateRecord answered with `existing`: not found fails the call; otherwise
\* saveRecord(updatedRecord) creates the readwrite transaction
AfterGet(q, rest, cs, existing, t) ==
    IF existing.taskId = 0
    THEN [queue |-> rest, calls |-> Settled(cs, q.call, "OPERATION_FAILED"),
          store |-> store]
    ELSE IF ~IsAvailable
    THEN [queue |-> rest, calls |-> Settled(cs, q.call, "STORAGE_UNAVAILABLE"),
          store |-> store]
    ELSE [queue |-> Append(rest, Txn("put", q.key,
                               Merge(existing, q.patch, q.key, t), NoPatch, q.call)),
          calls |-> cs, store |-> store]

\* the oldest transaction runs and its request answers
IdbRun ==
    /\ Len(idbQueue) > 0
    /\ LET q == Head(idbQueue)
           rest == Tail(idbQueue)
       IN  CASE q.op = "put" ->
                  /\ store' = [store EXCEPT ![q.rec.taskId] = q.rec]
                  /\ idbQueue' = rest
                  /\ calls' = Settled(calls, q.call, "ok")
             [] q.op = "delete" ->
                  /\ store' = [k \in DOMAIN store |->
                                  IF k = q.key THEN NoRecord ELSE store[k]]
                  /\ idbQueue' = rest
                  /\ calls' = Settled(calls, q.call, "ok")
             [] q.op = "clear" ->
                  /\ store' = [k \in TaskIds |-> NoRecord]
                  /\ idbQueue' = rest
                  /\ calls' = Settled(calls, q.call, "ok")
             [] q.op = "get" ->
                  LET a == AfterGet(q, rest, calls, store[q.key], now)
                  IN  /\ store' = a.store
                      /\ idbQueue' = a.queue
                      /\ calls' = a.calls
    /\ UNCHANGED <<dbOpen, now>>

IdbStep == IdbRun /\ UNCHANGED nonSt

\* time passes
Tick ==
    /\ now < MaxClock
    /\ now' = now + 1
    /\ UNCHANGED <<dbOpen, store, idbQueue, calls, nonSt>>

\* the records clients save
NewRecords ==
    {Record(k, "fileB", {}, "tokB", now, now) : k \in TaskIds}

StoreNext ==
    \/ StorageInit
    \/ StorageClose
    \/ \E rec \in NewRecords : SaveRecord(rec)
    \/ \E k \in TaskIds, p \in Patches : UpdateRecord(k, p)
    \/ \E k \in TaskIds : DeleteRecord(k)
    \/ ClearAll
    \/ IdbStep
    \/ Tick

\* ------------------------------------------------- UploadTask and UploadManager
\* tasks a manager creates, and init() calls it has in flight
MaxTasks == 2
MaxInits == 2
\* retry counts a caller passes, and the largest one tried
MaxRetry == 1
\* work units a task submits through its controller
MaxUnits == 3
\* options.retryCount left out
Absent == -1
RetryOptions == (0..MaxRetry) \cup {Absent}
\* the taskId of the task
TheTask == 1

Statuses == {"idle", "hashing", "uploading", "paused", "success", "error", "cancelled"}
Terminal == {"success", "error", "cancelled"}

\* createTask: retryCount: options?.retryCount ?? 3
DefaultRetryCount == 3
RetryCountLow(opt) == IF opt = Absent THEN DefaultRetryCount - 1 ELSE opt
RetryCountOf(opt) == IF opt = Absent THEN DefaultRetryCount ELSE opt

\* a function of the controller that is no chunk upload (yet, or any more)
NoUnit == [chunk |-> -1, phase |-> "none", attempt |-> 0]

\* a task nobody created
TaskIdle ==
    /\ status = "idle"
    /\ token = "none"
    /\ hash = "none"
    /\ merge = "none"
    /\ uploaded = {}
    /\ unit = [f \in Fns |-> NoUnit]
    /\ plan = 0
    /\ options = [concurrency |-> 1, retryCount |-> 0, asked |-> 0]
    /\ recordCreated = FALSE
    /\ emitted = {}

\* the files and options createTask is called with: every concurrency,
\* retryCount and number of chunks; the default retryCount with a file of
\* one chunk
TaskInputs ==
    {i \in [concurrency : Limits, retryCount : RetryOptions, chunks : 1..MaxChunks] :
        i.retryCount = Absent => (i.concurrency = 1 /\ i.chunks = 1)}

\* manager.init() then createTask(file, options): the task has its own
\* controller with the configured concurrency; the store is open and empty
TaskInit ==
    /\ \E i \in TaskInputs :
          /\ options = [concurrency |-> i.concurrency,
                        retryCount |-> RetryCountOf(i.retryCount),
                        asked |-> i.retryCount]
          /\ currentLimit = i.concurrency
          /\ limiters = <<NewLimiter(i.concurrency)>>
          /\ plan = i.chunks
    /\ limiter = 1
    /\ fns = [f \in Fns |-> NoFn]
    /\ nSubmitted = 0
    /\ dbOpen = TRUE
    /\ store = [k \in TaskIds |-> NoRecord]
    /\ idbQueue = <<>>
    /\ calls = <<>>
    /\ now = 0
    /\ status = "idle"
    /\ token = "none"
    /\ hash = "none"
    /\ merge = "none"
    /\ uploaded = {}
    /\ unit = [f \in Fns |-> NoUnit]
    /\ recordCreated = FALSE
    /\ emitted = {}
    /\ adjOptions = [initialSize |-> 1, minSize |-> 1, maxSize |-> 1, targetTime |-> 1]
    /\ adjCurrent = [n |-> 1, d |-> 1]
    /\ adjReturned = [n |-> 0, d |-> 0]
    /\ adjCalls = 0
    /\ adjRun = "none"
    /\ initialized = FALSE
    /\ tasks = <<>>
    /\ taskStatus = [id \in 1..MaxTasks |-> "none"]
    /\ mgrInits = 0
    /\ mgrCreated = 0
    /\ mgrDeleted = {}
    /\ mgrClearing = <<>>
    /\ mgrThrew = FALSE
    /\ taskKey = [id \in 1..MaxTasks |-> 0]
    /\ taskSeed = [id \in 1..MaxTasks |-> NoRecord]
    /\ mgrCloses = 0
    /\ mgrFailed = FALSE
    /\ plugins = <<>>
    /\ hooked = <<>>
    /\ mgrReturned = [kind |-> "none"]
    /\ mgrResume = [phase |-> "none"]
    /\ handlers = <<>>
    /\ busLog = [type |-> "none", called |-> <<>>, threw |-> FALSE]
    /\ httpLast = [status |-> 0]
    /\ pluginStats = [kind |-> "none"]
    /\ tcp = [kind |-> "none"]
    /\ boot = [kind |-> "none"]

\* the chunk plan and the chunks still to upload, in index order
Plan == 0..(plan - 1)
RECURSIVE Ascending(_)
Ascending(S) ==
    IF S = {} THEN <<>>
    ELSE LET m == CHOOSE x \in S : \A y \in S : x <= y
         IN  <<m>> \o Ascending(S \ {m})
Remaining(done) == Ascending(Plan \ done)

\* submit an uploadChunk work unit through the controller for every chunk
\* of cs, in order
Submit(cs) ==
    /\ nSubmitted + Len(cs) <= MaxUnits
    /\ RunCC(Len(cs))
    /\ unit' = [f \in Fns |->
                  IF f > nSubmitted /\ f <= nSubmitted + Len(cs)
                  THEN [chunk |-> cs[f - nSubmitted], phase |-> "new", attempt |-> 0]
                  ELSE unit[f]]

\* the work unit of function f is over: its promise settles
UnitEnds(f, ok) ==
    /\ SettleCC(f, ok)
    /\ unit' = [unit EXCEPT ![f] = NoUnit]

\* the store calls of the task; it does not wait for their outcome
WriteProgress(done) ==
    IF ~IsAvailable THEN UNCHANGED <<idbQueue, recordCreated>>
    ELSE IF ~recordCreated
    THEN /\ idbQueue' = Append(idbQueue,
                Txn("put", TheTask, Record(TheTask, "fileA", done, "tokA", now, now),
                    NoPatch, 0))
         /\ recordCreated' = TRUE
    ELSE /\ idbQueue' = Append(idbQueue,
                Txn("get", TheTask, NoRecord, ChunksPatch(done), 0))
         /\ UNCHANGED recordCreated

DeleteProgress ==
    IF ~IsAvailable THEN UNCHANGED idbQueue
    ELSE idbQueue' = Append(idbQueue, Txn("delete", TheTask, NoRecord, NoPatch, 0))

\* which calls an operation acts on
CanStartTask(s) == s = "idle"
CanPauseAny(s) == s \in {"idle", "uploading"}
CanPause(s) == s = "uploading"
CanResume(s) == s = "paused"
CanCancelAny(s) == s \in {"idle", "uploading", "paused", "success", "error"}
CanCancel(s) == s \in {"uploading", "paused"}
\* a work unit calls uploadChunk, for the first time or again
MayUploadAlways(s) == TRUE
MayUpload(s) == s = "uploading"
\* the result of a request is taken
Takes(s) == s \in {"uploading", "paused"}

\* start(): idle -> uploading; createFile is called and the hash starts
Start ==
    /\ CanStartTask(status)
    /\ status' = "uploading"
    /\ token' = "pending"
    /\ hash' = "running"
    /\ emitted' = {"start"}
    /\ UNCHANGED <<merge, uploaded, unit, plan, options, recordCreated, ccVars, stVars>>
    /\ UNCHANGED nonTk

\* createFile answers: the token; the chunks are submitted through the
\* controller. A failure is a task-level error. (At a terminal status the
\* answer changes nothing.)
CreateFileDone(ok) ==
    /\ token = "pending"
    /\ status \notin Terminal
    /\ IF status = "uploading" /\ ok
       THEN /\ token' = "ok"
            /\ Submit(Remaining(uploaded))
            /\ emitted' = {}
            /\ UNCHANGED status
       ELSE IF status = "uploading"
       THEN /\ token' = "none"
            /\ status' = "error"
            /\ emitted' = {"error"}
            /\ UNCHANGED <<unit, ccVars>>
       ELSE /\ token' = IF ok /\ status = "paused" THEN "ok" ELSE "none"
            /\ emitted' = {}
            /\ UNCHANGED <<status, unit, ccVars>>
    /\ UNCHANGED <<hash, merge, uploaded, plan, options, recordCreated, stVars>>
    /\ UNCHANGED nonTk

\* the hash is complete and verifyHash answers; fileExists: straight to
\* success, the chunk uploads not yet started are dropped. (At a terminal
\* status the answer changes nothing.)
HashDone(fileExists) ==
    /\ hash = "running"
    /\ status \notin Terminal
    /\ hash' = "known"
    /\ IF fileExists /\ status = "uploading"
       THEN /\ status' = "success"
            /\ emitted' = {"hashComplete", "success"}
            /\ ClearQueueCC
            /\ unit' = [f \in Fns |->
                          IF fns[f].st = "queued" THEN NoUnit ELSE unit[f]]
       ELSE /\ emitted' = {"hashComplete"}
            /\ UNCHANGED <<status, unit, ccVars>>
    /\ UNCHANGED <<token, merge, uploaded, plan, options, recordCreated, stVars>>
    /\ UNCHANGED nonTk

\* the controller has started the work unit of function f: it calls
\* uploadChunk, unless the task stopped uploading or the chunk is uploaded
UnitBegin(f) ==
    /\ fns[f].st = "running"
    /\ unit[f].phase = "new"
    /\ IF MayUpload(status) /\ unit[f].chunk \notin uploaded
       THEN /\ unit' = [unit EXCEPT ![f].phase = "inflight", ![f].attempt = 1]
            /\ UNCHANGED ccVars
       ELSE UnitEnds(f, TRUE)
    /\ emitted' = {}
    /\ UNCHANGED <<status, token, hash, merge, uploaded, plan, options,
                   recordCreated, stVars>>
    /\ UNCHANGED nonTk

\* the bytes of a chunk: the last chunk of a plan of several is shorter
ChunkBytes == 2
LastBytes == 1
SizeOf(c) == IF plan > 1 /\ c = plan - 1 THEN LastBytes ELSE ChunkBytes

\* getProgress().uploadedBytes with the chunks `done` uploaded
RECURSIVE UploadedBytes(_)
UploadedBytes(done) ==
    IF done = {} THEN 0
    ELSE LET c == CHOOSE x \in done : TRUE
         IN  SizeOf(c) + UploadedBytes(done \ {c})

\* a task that remembers only the chunk uploaded last
CompletedLast(done, c) == {c}

\* the uploaded chunks once chunk c is uploaded as well
Completed(done, c) == done \cup {c}

\* uploadChunk of function f answers
UploadDone(f, ok) ==
    /\ unit[f].phase = "inflight"
    /\ IF ~Takes(status)
       THEN \* the result is discarded
            /\ UnitEnds(f, TRUE)
            /\ emitted' = {}
            /\ UNCHANGED <<status, uploaded, idbQueue, recordCreated>>
       ELSE IF ok
       THEN /\ uploaded' = Completed(uploaded, unit[f].chunk)
            /\ emitted' = {"chunkSuccess", "progress"}
            /\ WriteProgress(Completed(uploaded, unit[f].chunk))
            /\ UnitEnds(f, TRUE)
            /\ UNCHANGED status
       ELSE IF unit[f].attempt <= options.retryCount
       THEN \* retry after the backoff delay
            /\ unit' = [unit EXCEPT ![f].phase = "backoff"]
            /\ emitted' = {"chunkError"}
            /\ UNCHANGED <<status, uploaded, idbQueue, recordCreated, ccVars>>
       ELSE \* retries exhausted
            /\ UnitEnds(f, FALSE)
            /\ status' = IF status = "uploading" THEN "error" ELSE status
            /\ emitted' = IF status = "uploading" THEN {"chunkError", "error"}
                          ELSE {"chunkError"}
            /\ UNCHANGED <<uploaded, idbQueue, recordCreated>>
    /\ UNCHANGED <<token, hash, merge, plan, options, dbOpen, store, calls, now>>
    /\ UNCHANGED nonTk

\* the backoff delay of function f is over
RetryFire(f) ==
    /\ unit[f].phase = "backoff"
    /\ IF MayUpload(status)
       THEN /\ unit' = [unit EXCEPT ![f].phase = "inflight", ![f].attempt = @ + 1]
            /\ UNCHANGED ccVars
       ELSE UnitEnds(f, TRUE)
    /\ emitted' = {}
    /\ UNCHANGED <<status, token, hash, merge, uploaded, plan, options,
                   recordCreated, stVars>>
    /\ UNCHANGED nonTk

\* all chunks reported success and the file hash is known: mergeFile
MergeStart ==
    /\ status = "uploading"
    /\ token = "ok"
    /\ hash = "known"
    /\ merge = "none"
    /\ uploaded = Plan
    /\ merge' = "pending"
    /\ emitted' = {}
    /\ UNCHANGED <<status, token, hash, uploaded, unit, plan, options,
                   recordCreated, ccVars, stVars>>
    /\ UNCHANGED nonTk

\* mergeFile answers (at a terminal status the answer changes nothing)
MergeDone(ok) ==
    /\ merge = "pending"
    /\ status \notin Terminal
    /\ merge' = "none"
    /\ IF status = "uploading"
       THEN /\ status' = IF ok THEN "success" ELSE "error"
            /\ emitted' = IF ok THEN {"success"} ELSE {"error"}
       ELSE /\ emitted' = {}
            /\ UNCHANGED status
    /\ UNCHANGED <<token, hash, uploaded, unit, plan, options,
                   recordCreated, ccVars, stVars>>
    /\ UNCHANGED nonTk

\* pause(): uploading -> paused; nothing in flight is interrupted
Pause ==
    /\ CanPause(status)
    /\ status' = "paused"
    /\ emitted' = {"pause"}
    /\ UNCHANGED <<token, hash, merge, uploaded, unit, plan, options,
                   recordCreated, ccVars, stVars>>
    /\ UNCHANGED nonTk

\* resume(): paused -> uploading; the remaining chunks are submitted again
Resume ==
    /\ CanResume(status)
    /\ status' = "uploading"
    /\ emitted' = {"resume"}
    /\ IF token = "ok"
       THEN Submit(Remaining(uploaded)) /\ UNCHANGED token
       ELSE /\ token' = "pending"
            /\ UNCHANGED <<unit, ccVars>>
    /\ UNCHANGED <<hash, merge, uploaded, plan, options, recordCreated, stVars>>
    /\ UNCHANGED nonTk

\* cancel(): -> cancelled; the controller's queue is cleared and the
\* progress record deleted
Cancel ==
    /\ CanCancel(status)
    /\ status' = "cancelled"
    /\ emitted' = {"cancel"}
    /\ ClearQueueCC
    /\ unit' = [f \in Fns |-> IF fns[f].st = "queued" THEN NoUnit ELSE unit[f]]
    /\ DeleteProgress
    /\ UNCHANGED <<token, hash, merge, uploaded, plan, options, recordCreated,
                   dbOpen, store, calls, now>>
    /\ UNCHANGED nonTk

\* UploadManager.pauseAll(): pause() on every task that is uploading
PauseAll ==
    /\ status = "uploading"
    /\ Pause

\* UploadManager.resumeAll(): resume() on every task that is paused
ResumeAll ==
    /\ status = "paused"
    /\ Resume

\* UploadManager.cancelAll(): cancel() on every task uploading or paused
CancelAll ==
    /\ status \in {"uploading", "paused"}
    /\ Cancel

\* the store and the controller at work under the task
TaskIdbStep ==
    /\ IdbRun
    /\ emitted' = {}
    /\ UNCHANGED <<status, token, hash, merge, uploaded, unit, plan, options,
                   recordCreated, ccVars>>
    /\ UNCHANGED nonTk

TaskCheck ==
    /\ CheckCC(limiter)
    /\ emitted' = {}
    /\ UNCHANGED <<status, token, hash, merge, uploaded, unit, plan, options,
                   recordCreated, stVars>>
    /\ UNCHANGED nonTk

Next ==
    \/ Start
    \/ \E ok \in BOOLEAN : CreateFileDone(ok)
    \/ \E x \in BOOLEAN : HashDone(x)
    \/ \E f \in Fns : UnitBegin(f)
    \/ \E f \in Fns, ok \in BOOLEAN : UploadDone(f, ok)
    \/ \E f \in Fns : RetryFire(f)
    \/ MergeStart
    \/ \E ok \in BOOLEAN : MergeDone(ok)
    \/ Pause
    \/ Resume
    \/ Cancel
    \/ PauseAll
    \/ ResumeAll
    \/ CancelAll
    \/ TaskCheck
    \/ TaskIdbStep

Spec == TaskInit /\ [][Next]_vars

\* ------------------------------------------------- ChunkSizeAdjuster
\* largest size and largest target time tried, and the adjust calls made
\* between two resets
MaxSize == 4
MaxTarget == 2
MaxAdjusts == 3

\* sizes and target times handed to the constructor (sizes are JavaScript
\* numbers: the constructor is also given zero and negative ones)
Sizes == (-1)..MaxSize
Targets == 0..MaxTarget
\* upload times, counted in half milliseconds so that 0.5 * targetTime and
\* 1.5 * targetTime are among them; -1: a negative uploadTimeMs
HalfTimes == (-1)..(3 * MaxTarget + 1)

\* A size is a number n / d with d a power of two and n odd unless d = 1:
\* halving an odd number of bytes gives a fraction, as in JavaScript.
Q(n) == [n |-> n, d |-> 1]
Dbl(a) == IF a.d > 1 THEN [n |-> a.n, d |-> a.d \div 2] ELSE [n |-> 2 * a.n, d |-> 1]
Half(a) == IF a.n % 2 = 0 THEN [n |-> a.n \div 2, d |-> a.d] ELSE [n |-> a.n, d |-> 2 * a.d]
Lt(a, b) == a.n * b.d < b.n * a.d
Le(a, b) == a.n * b.d <= b.n * a.d
QMin(a, b) == IF Lt(b, a) THEN b ELSE a
QMax(a, b) == IF Lt(a, b) THEN b ELSE a

\* the constructor does not throw
Accepts(o) ==
    /\ ~(o.minSize > o.maxSize)
    /\ ~(o.initialSize < o.minSize \/ o.initialSize > o.maxSize)
    /\ ~(o.targetTime <= 0)

AdjusterOptions ==
    [initialSize : Sizes, minSize : Sizes, maxSize : Sizes, targetTime : Targets]

\* no size returned yet
NoSize == [n |-> 0, d |-> 0]

\* an adjuster nobody constructed
AdjIdle ==
    /\ adjOptions = [initialSize |-> 1, minSize |-> 1, maxSize |-> 1, targetTime |-> 1]
    /\ adjCurrent = Q(1)
    /\ adjReturned = NoSize
    /\ adjCalls = 0
    /\ adjRun = "none"

\* new ChunkSizeAdjuster(options), for the options the constructor accepts
AdjStart ==
    /\ adjOptions \in {o \in AdjusterOptions : Accepts(o)}
    /\ adjCurrent = Q(adjOptions.initialSize)
    /\ adjReturned = NoSize
    /\ adjCalls = 0
    /\ adjRun = "none"

\* uploadTimeMs < targetTime * 0.5, uploadTimeMs > targetTime * 1.5
IsFastOrEqual(o, t2) == t2 <= o.targetTime
IsFast(o, t2) == t2 < o.targetTime
IsSlow(o, t2) == t2 > 3 * o.targetTime

\* the size adjust(uploadTimeMs) sets and returns
AdjustResult(cur, o, t2) ==
    IF IsFast(o, t2) THEN QMin(Dbl(cur), Q(o.maxSize))
    ELSE IF IsSlow(o, t2) THEN QMax(Half(cur), Q(o.minSize))
    ELSE cur

\* what the calls since the latest reset reported, after one more
RunAfter(run, kind) ==
    IF run \in {"none", kind} THEN kind ELSE "mixed"
KindOf(o, t2) ==
    IF IsFast(o, t2) THEN "fast" ELSE IF IsSlow(o, t2) THEN "slow" ELSE "mixed"

\* adjust(uploadTimeMs); a negative time throws
Adjust(t2) ==
    /\ adjCalls < MaxAdjusts
    /\ IF t2 < 0
       THEN UNCHANGED adjVars
       ELSE /\ adjCurrent' = AdjustResult(adjCurrent, adjOptions, t2)
            /\ adjReturned' = adjCurrent'
            /\ adjCalls' = adjCalls + 1
            /\ adjRun' = RunAfter(adjRun, KindOf(adjOptions, t2))
            /\ UNCHANGED adjOptions
    /\ UNCHANGED nonAdj

\* getCurrentSize()
GetCurrentSize == adjCurrent

\* reset()
Reset ==
    /\ adjCurrent' = Q(adjOptions.initialSize)
    /\ adjCalls' = 0
    /\ adjRun' = "none"
    /\ adjReturned' = NoSize
    /\ UNCHANGED <<adjOptions, nonAdj>>

AdjNext ==
    \/ \E t2 \in HalfTimes : Adjust(t2)
    \/ Reset

\* ------------------------------------------------- UploadManager
\* the task objects, numbered as they are made, and the task ids; what
\* getTask answers for an id it does not hold
Ids == 1..MaxTasks
Undefined == 0

\* what a plugin does with a hook: not define it, run it, throw in it
Plugins == {[has |-> FALSE, throws |-> FALSE], [has |-> TRUE, throws |-> FALSE],
            [has |-> TRUE, throws |-> TRUE]}

\* a call that returns no number
NoReturn == [kind |-> "none"]

\* no resumeTask call under way
NoResume == [phase |-> "none"]

\* new UploadManager(options)
MgrIdle ==
    /\ initialized = FALSE
    /\ tasks = <<>>
    /\ taskStatus = [o \in Ids |-> "none"]
    /\ taskKey = [o \in Ids |-> Undefined]
    /\ taskSeed = [o \in Ids |-> NoRecord]
    /\ mgrInits = 0
    /\ mgrCreated = 0
    /\ mgrDeleted = {}
    /\ mgrClearing = <<>>
    /\ mgrThrew = FALSE
    /\ mgrCloses = 0
    /\ mgrFailed = FALSE
    /\ plugins = <<>>
    /\ hooked = <<>>
    /\ mgrReturned = [kind |-> "none"]
    /\ mgrResume = NoResume

\* a callPluginHook without the try/catch: the first throwing hook ends it
HookLoopNoCatch(ps, i, hook, o) ==
    LET F[j \in 1..(Len(ps) + 1)] ==
            IF j > Len(ps) THEN [log |-> <<>>, threw |-> FALSE]
            ELSE IF ~ps[j].has THEN F[j + 1]
            ELSE IF ps[j].throws THEN [log |-> <<<<hook, j, o>>>>, threw |-> TRUE]
            ELSE [log |-> <<<<hook, j, o>>>> \o F[j + 1].log,
                  threw |-> F[j + 1].threw]
    IN  F[i]

\* callPluginHook(hookName, task) from plugin i on: every plugin that has
\* the hook is called, in the order of this.plugins; what a hook throws is
\* caught and logged
HookLoop(ps, i, hook, o) ==
    LET F[j \in 1..(Len(ps) + 1)] ==
            IF j > Len(ps) THEN [log |-> <<>>, threw |-> FALSE]
            ELSE IF ~ps[j].has THEN F[j + 1]
            ELSE [log |-> <<<<hook, j, o>>>> \o F[j + 1].log,
                  threw |-> F[j + 1].threw]
    IN  F[i]

CallPluginHook(hook, o) == HookLoop(plugins, 1, hook, o)

\* the hook calls made when each task of the sequence os emits `event`
RECURSIVE HooksOf(_, _)
HooksOf(hook, os) ==
    IF os = <<>> THEN [log |-> <<>>, threw |-> FALSE]
    ELSE LET h == CallPluginHook(hook, Head(os))
             r == HooksOf(hook, Tail(os))
         IN  IF h.threw THEN h
             ELSE [log |-> h.log \o r.log, threw |-> r.threw]

\* use(plugin): push, then install (what it throws is caught)
Use(p) ==
    /\ Len(plugins) < MaxPlugins
    /\ plugins' = Append(plugins, p)
    /\ hooked' = <<>>
    /\ mgrReturned' = NoReturn
    /\ UNCHANGED <<initialized, mgrInits, regVars, ghostVars, mgrResume,
                   dbOpen, idbQueue, nonMgr>>

\* an init() that lets a failure of storage.init() out
MgrInitStrict(ok) ==
    [initialized |-> ok, dbOpen |-> dbOpen \/ ok, threw |-> ~ok]

\* init() after storage.init() answered (ok: the database opened): the catch
\* block marks the manager initialized as well
MgrInitResult(ok) ==
    [initialized |-> TRUE, dbOpen |-> dbOpen \/ ok, threw |-> FALSE]

\* init() is called: nothing to do when initialized, else storage.init()
InitCall ==
    /\ ~initialized
    /\ mgrInits < MaxInits
    /\ mgrInits' = mgrInits + 1
    /\ hooked' = <<>>
    /\ mgrReturned' = NoReturn
    /\ UNCHANGED <<initialized, regVars, ghostVars, plugins, mgrResume,
                   dbOpen, idbQueue, nonMgr>>

\* storage.init() answers an init() call, which then returns
InitDone(ok) ==
    /\ mgrInits > 0
    /\ LET r == MgrInitResult(ok)
       IN  /\ initialized' = r.initialized
           /\ dbOpen' = r.dbOpen
           /\ mgrThrew' = (mgrThrew \/ r.threw)
    /\ mgrInits' = mgrInits - 1
    /\ hooked' = <<>>
    /\ mgrReturned' = NoReturn
    /\ UNCHANGED <<regVars, mgrCreated, mgrDeleted, mgrClearing, mgrCloses,
                   mgrFailed, plugins, mgrResume, idbQueue, nonMgr>>

IsInitialized == initialized

\* the id a new UploadTask gives itself: unique
NewTaskId == mgrCreated + 1

\* where the Map holds key id: the place in ts of the task with that id
PlaceOf(ts, id) == {i \in 1..Len(ts) : taskKey[ts[i]] = id}

\* a Map.set that puts a new key first
MapSetFront(ts, id, o) ==
    IF PlaceOf(ts, id) # {}
    THEN [ts EXCEPT ![CHOOSE i \in PlaceOf(ts, id) : TRUE] = o]
    ELSE <<o>> \o ts

\* Map.set(id, o): a new key goes last, a key already there keeps its place
\* and gets the new value
MapSet(ts, id, o) ==
    IF PlaceOf(ts, id) # {}
    THEN [ts EXCEPT ![CHOOSE i \in PlaceOf(ts, id) : TRUE] = o]
    ELSE Append(ts, o)

\* Map.delete(id)
MapDelete(ts, id) == SelectSeq(ts, LAMBDA o : taskKey[o] # id)

\* createTask(file, options)
CreateTask ==
    /\ mgrCreated < MaxTasks
    /\ LET o == mgrCreated + 1
           h == CallPluginHook("onTaskCreated", o)
       IN  /\ tasks' = MapSet(tasks, NewTaskId, o)
           /\ taskStatus' = [taskStatus EXCEPT ![o] = "idle"]
           /\ taskKey' = [taskKey EXCEPT ![o] = NewTaskId]
           /\ hooked' = h.log
           /\ mgrReturned' = NoReturn
           /\ mgrThrew' = (mgrThrew \/ h.threw)
    /\ mgrCreated' = mgrCreated + 1
    /\ UNCHANGED <<initialized, mgrInits, taskSeed, mgrDeleted, mgrClearing,
                   mgrCloses, mgrFailed, plugins, mgrResume, dbOpen, idbQueue,
                   nonMgr>>

GetTask(id) ==
    IF PlaceOf(tasks, id) # {}
    THEN tasks[CHOOSE i \in PlaceOf(tasks, id) : TRUE] ELSE Undefined
GetAllTasks == tasks
GetTaskCount == Len(tasks)

\* a cancelAll and deleteTask that call cancel() on a cancelled task too
CancellableAgain == {"uploading", "paused", "cancelled"}

\* a cancelAll that leaves paused tasks alone
CancellableUploading == {"uploading"}

\* the statuses in which deleteTask and cancelAll call task.cancel()
Cancellable == {"uploading", "paused"}

\* a deleteTask that cancels only what is uploading
DeleteTaskUploading(ts, st, id) ==
    LET P == {i \in 1..Len(ts) : taskKey[ts[i]] = id}
    IN  IF P = {}
        THEN [tasks |-> ts, status |-> st, removed |-> {}, cancelled |-> <<>>,
              cleanup |-> FALSE]
        ELSE LET o == ts[CHOOSE i \in P : TRUE]
                 active == st[o] \in {"uploading"}
             IN  [tasks |-> SelectSeq(ts, LAMBDA x : taskKey[x] # id),
                  status |-> [st EXCEPT ![o] = IF active THEN "cancelled" ELSE @],
                  removed |-> {id},
                  cancelled |-> IF active THEN <<o>> ELSE <<>>,
                  cleanup |-> IsAvailable]

\* deleteTask(taskId) on registry ts and statuses st: cancel a task that is
\* uploading or paused, remove it, and delete its record if the store is
\* available (a failure of that is caught)
DeleteTaskResult(ts, st, id) ==
    LET P == {i \in 1..Len(ts) : taskKey[ts[i]] = id}
    IN  IF P = {}
        THEN [tasks |-> ts, status |-> st, removed |-> {}, cancelled |-> <<>>,
              cleanup |-> FALSE]
        ELSE LET o == ts[CHOOSE i \in P : TRUE]
                 active == st[o] \in Cancellable
             IN  [tasks |-> MapDelete(ts, id),
                  status |-> [st EXCEPT ![o] = IF active THEN "cancelled" ELSE @],
                  removed |-> {id},
                  cancelled |-> IF active THEN <<o>> ELSE <<>>,
                  cleanup |-> IsAvailable]

\* the manager after a deleteTask(id) with outcome r; the cancel event of
\* the task reaches the plugins' onTaskCancel
Deleted(r, id) ==
    /\ tasks' = r.tasks
    /\ taskStatus' = r.status
    /\ mgrDeleted' = mgrDeleted \cup r.removed
    /\ idbQueue' = IF r.cleanup
                   THEN Append(idbQueue, Txn("delete", id, NoRecord, NoPatch, 0))
                   ELSE idbQueue
    /\ LET h == HooksOf("onTaskCancel", r.cancelled)
       IN  /\ hooked' = h.log
           /\ mgrReturned' = NoReturn
           /\ mgrThrew' = (mgrThrew \/ h.threw)

\* deleteTask(taskId), for the id of a task createTask returned
DeleteTask(id) ==
    /\ id \in 1..mgrCreated
    /\ Deleted(DeleteTaskResult(tasks, taskStatus, id), id)
    /\ UNCHANGED <<initialized, mgrInits, taskKey, taskSeed, mgrCreated,
                   mgrClearing, mgrCloses, mgrFailed, plugins, mgrResume,
                   dbOpen, nonMgr>>

\* clearCompletedTasks(): takes getAllTasks() and awaits a deleteTask for
\* each task found in a terminal status
ClearCompletedTasks ==
    /\ mgrClearing = <<>>
    /\ tasks # <<>>
    /\ mgrClearing' = GetAllTasks
    /\ hooked' = <<>>
    /\ mgrReturned' = NoReturn
    /\ UNCHANGED <<initialized, mgrInits, regVars, mgrCreated, mgrDeleted,
                   mgrThrew, mgrCloses, mgrFailed, plugins, mgrResume, dbOpen,
                   idbQueue, nonMgr>>

\* the loop of clearCompletedTasks looks at its next task
ClearCompletedStep ==
    /\ mgrClearing # <<>>
    /\ LET o == Head(mgrClearing)
       IN  IF taskStatus[o] \in Terminal
           THEN Deleted(DeleteTaskResult(tasks, taskStatus, taskKey[o]), taskKey[o])
           ELSE /\ hooked' = <<>>
                /\ mgrReturned' = NoReturn
                /\ UNCHANGED <<tasks, taskStatus, mgrDeleted, idbQueue, mgrThrew>>
    /\ mgrClearing' = Tail(mgrClearing)
    /\ UNCHANGED <<initialized, mgrInits, taskKey, taskSeed, mgrCreated,
                   mgrCloses, mgrFailed, plugins, mgrResume, dbOpen, nonMgr>>

\* the registered tasks in one of the statuses `from`, in registry order
Those(from) == SelectSeq(tasks, LAMBDA o : taskStatus[o] \in from)

\* a count that leaves the last task out
CountShort(os) == Len(os) - 1

\* the number pauseAll, resumeAll and cancelAll return: one per task acted on
Count(os) == Len(os)

\* the statuses after every registered task in one of the statuses `from`
\* went to status `to`
AllTo(from, to) ==
    [o \in Ids |-> IF o \in Members(tasks) /\ taskStatus[o] \in from
                   THEN to ELSE taskStatus[o]]

\* a batch operation taking the registered tasks in `from` to `to`; each
\* task emits its event, which reaches the plugins' hook
Batch(from, to, hook) ==
    /\ Those(from) # <<>>
    /\ taskStatus' = AllTo(from, to)
    /\ LET h == HooksOf(hook, Those(from))
       IN  /\ hooked' = h.log
           /\ mgrReturned' = [kind |-> "count", to |-> to, n |-> Count(Those(from))]
           /\ mgrThrew' = (mgrThrew \/ h.threw)

\* pauseAll() on the registry
MgrPauseAll ==
    /\ Batch({"uploading"}, "paused", "onTaskPause")
    /\ UNCHANGED <<initialized, mgrInits, tasks, taskKey, taskSeed, mgrCreated,
                   mgrDeleted, mgrClearing, mgrCloses, mgrFailed, plugins,
                   mgrResume, dbOpen, idbQueue, nonMgr>>

\* resumeAll() on the registry
MgrResumeAll ==
    /\ Batch({"paused"}, "uploading", "onTaskResume")
    /\ UNCHANGED <<initialized, mgrInits, tasks, taskKey, taskSeed, mgrCreated,
                   mgrDeleted, mgrClearing, mgrCloses, mgrFailed, plugins,
                   mgrResume, dbOpen, idbQueue, nonMgr>>

\* cancelAll() on the registry
MgrCancelAll ==
    /\ Batch(Cancellable, "cancelled", "onTaskCancel")
    /\ UNCHANGED <<initialized, mgrInits, tasks, taskKey, taskSeed, mgrCreated,
                   mgrDeleted, mgrClearing, mgrCloses, mgrFailed, plugins,
                   mgrResume, dbOpen, idbQueue, nonMgr>>

\* close(): cancelAll(), storage.close(), tasks.clear(), initialized = false
MgrClose ==
    /\ mgrCloses < MaxCloses
    /\ taskStatus' = AllTo(Cancellable, "cancelled")
    /\ LET h == HooksOf("onTaskCancel", Those(Cancellable))
       IN  /\ hooked' = h.log
           /\ mgrReturned' = NoReturn
           /\ mgrThrew' = (mgrThrew \/ h.threw)
    /\ dbOpen' = FALSE
    /\ tasks' = <<>>
    /\ initialized' = FALSE
    /\ mgrCloses' = mgrCloses + 1
    /\ UNCHANGED <<mgrInits, taskKey, taskSeed, mgrCreated, mgrDeleted,
                   mgrClearing, mgrFailed, plugins, mgrResume, idbQueue, nonMgr>>

\* a task the manager holds or is looking at is started by its holder
TaskStarts(o) ==
    /\ o \in Members(tasks) \cup Members(mgrClearing)
    /\ taskStatus[o] = "idle"
    /\ taskStatus' = [taskStatus EXCEPT ![o] = "uploading"]
    /\ LET h == CallPluginHook("onTaskStart", o)
       IN  /\ hooked' = h.log
           /\ mgrReturned' = NoReturn
           /\ mgrThrew' = (mgrThrew \/ h.threw)
    /\ UNCHANGED <<initialized, mgrInits, tasks, taskKey, taskSeed, mgrCreated,
                   mgrDeleted, mgrClearing, mgrCloses, mgrFailed, plugins,
                   mgrResume, dbOpen, idbQueue, nonMgr>>

\* an upload ends
TaskEnds(o, s) ==
    /\ o \in Members(tasks) \cup Members(mgrClearing)
    /\ taskStatus[o] = "uploading"
    /\ taskStatus' = [taskStatus EXCEPT ![o] = s]
    /\ LET h == CallPluginHook(IF s = "success" THEN "onTaskSuccess"
                               ELSE "onTaskError", o)
       IN  /\ hooked' = h.log
           /\ mgrReturned' = NoReturn
           /\ mgrThrew' = (mgrThrew \/ h.threw)
    /\ UNCHANGED <<initialized, mgrInits, tasks, taskKey, taskSeed, mgrCreated,
                   mgrDeleted, mgrClearing, mgrCloses, mgrFailed, plugins,
                   mgrResume, dbOpen, idbQueue, nonMgr>>

\* the caller field of the transactions resumeTask awaits itself
ResumeCaller == -1

\* the holder of a task calls cancel() on it: a task that is uploading or
\* paused is cancelled and emits cancel, any other is left as it is
TaskCancels(o) ==
    /\ o \in Members(tasks) \cup Members(mgrClearing)
    /\ taskStatus[o] \in {"uploading", "paused", "cancelled"}
    /\ taskStatus' = [taskStatus EXCEPT ![o] = "cancelled"]
    /\ LET h == HooksOf("onTaskCancel",
                        IF taskStatus[o] = "cancelled" THEN <<>> ELSE <<o>>)
       IN  /\ hooked' = h.log
           /\ mgrReturned' = NoReturn
           /\ mgrThrew' = (mgrThrew \/ h.threw)
    /\ UNCHANGED <<initialized, mgrInits, tasks, taskKey, taskSeed, mgrCreated,
                   mgrDeleted, mgrClearing, mgrCloses, mgrFailed, plugins,
                   mgrResume, dbOpen, idbQueue, nonMgr>>

\* the store of the manager runs a transaction (those resumeTask awaits
\* are answered where it awaits them)
MgrIdbStep ==
    /\ Len(idbQueue) > 0
    /\ Head(idbQueue).call # ResumeCaller
    /\ IdbRun
    /\ hooked' = <<>>
    /\ mgrReturned' = NoReturn
    /\ UNCHANGED <<ccVars, tkVars, adjVars, auxVars, initialized, mgrInits,
                   regVars, ghostVars, plugins, mgrResume>>

\* the request of the oldest transaction, a deleteRecord of the manager,
\* fails (onerror): the rejection is caught where deleteRecord was awaited
MgrIdbFail ==
    /\ Len(idbQueue) > 0
    /\ Head(idbQueue).op = "delete"
    /\ Head(idbQueue).call # ResumeCaller
    /\ idbQueue' = Tail(idbQueue)
    /\ mgrFailed' = TRUE
    /\ hooked' = <<>>
    /\ mgrReturned' = NoReturn
    /\ UNCHANGED <<initialized, mgrInits, regVars, mgrCreated, mgrDeleted,
                   mgrClearing, mgrThrew, mgrCloses, plugins, mgrResume,
                   dbOpen, nonMgr>>

MgrNext ==
    \/ InitCall
    \/ \E ok \in BOOLEAN : InitDone(ok)
    \/ CreateTask
    \/ \E id \in Ids : DeleteTask(id)
    \/ ClearCompletedTasks
    \/ ClearCompletedStep
    \/ MgrPauseAll
    \/ MgrResumeAll
    \/ MgrCancelAll
    \/ MgrClose
    \/ \E o \in Ids : TaskStarts(o)
    \/ \E o \in Ids, s \in {"success", "error"} : TaskEnds(o, s)
    \/ MgrIdbStep
    \/ MgrIdbFail

\* ------------------------------------------------- UploadManager.resumeTask
\* the files resumeTask is handed, and the file of the stored record
Files == [name : {"a", "b"}, size : {1, 2}, type : {"t", "u"}, lastModified : {0, 1}]
StoredFile == [name |-> "a", size |-> 1, type |-> "t", lastModified |-> 0]

\* the record a database holds of an unfinished upload of an earlier session
Unfinished(k, chunks) == Record(k, StoredFile, chunks, "tokA", 0, 0)

\* a validation that compares lastModified as well
ResumeCheckStrict(rec, file) ==
    IF rec = NoRecord THEN "No unfinished task found"
    ELSE IF rec.fileInfo.name # file.name THEN "File name mismatch"
    ELSE IF rec.fileInfo.size # file.size THEN "File size mismatch"
    ELSE IF rec.fileInfo.type # file.type THEN "File type mismatch"
    ELSE IF rec.fileInfo.lastModified # file.lastModified THEN "File name mismatch"
    ELSE "ok"

\* resumeTask: the record is there, and name, size and type of the file are
\* those of the record, compared in that order; the answer is the error
\* thrown, or "ok"
ResumeCheck(rec, file) ==
    IF rec = NoRecord THEN "No unfinished task found"
    ELSE IF rec.fileInfo.name # file.name THEN "File name mismatch"
    ELSE IF rec.fileInfo.size # file.size THEN "File size mismatch"
    ELSE IF rec.fileInfo.type # file.type THEN "File type mismatch"
    ELSE "ok"

\* a resumeTask that makes and registers the task before it validates
ResumeResultEager(rec, file, o) ==
    [result |-> ResumeCheck(rec, file),
     task |-> IF rec # NoRecord THEN o ELSE Undefined,
     seed |-> rec]

\* a resumeTask that makes the task without the stored progress
ResumeResultFresh(rec, file, o) ==
    [result |-> ResumeCheck(rec, file),
     task |-> IF ResumeCheck(rec, file) = "ok" THEN o ELSE Undefined,
     seed |-> NoRecord]

\* resumeTask once getRecord answered rec: the error thrown or, past the
\* validation, the new task o made from the stored token and chunks
ResumeResult(rec, file, o) ==
    [result |-> ResumeCheck(rec, file),
     task |-> IF ResumeCheck(rec, file) = "ok" THEN o ELSE Undefined,
     seed |-> rec]

\* a resumeTask call: where it is, what it was called with, its outcome
\* (the error thrown, or "ok") and the task it returned
Resuming(phase, id, file, result, o) ==
    [phase |-> phase, id |-> id, file |-> file, result |-> result, task |-> o]

\* resumeTask(taskId, file) is called: it throws when the store is not
\* available and asks the store for the record otherwise
ResumeCall(id, file) ==
    /\ mgrResume.phase \in {"none", "done"}
    /\ IF ~IsAvailable
       THEN /\ mgrResume' = Resuming("done", id, file, "Storage is not available", Undefined)
            /\ idbQueue' = idbQueue
       ELSE /\ mgrResume' = Resuming("get", id, file, "", Undefined)
            /\ idbQueue' = Append(idbQueue, Txn("get", id, NoRecord, NoPatch, ResumeCaller))
    /\ hooked' = <<>>
    /\ mgrReturned' = NoReturn
    /\ UNCHANGED <<initialized, mgrInits, regVars, ghostVars, plugins, dbOpen, nonMgr>>

\* getRecord answers: validate; then make the task under the stored id,
\* register it, call onTaskCreated, and ask the store to delete the record
ResumeGot ==
    /\ mgrResume.phase = "get"
    /\ mgrCreated < MaxTasks
    /\ Len(idbQueue) > 0
    /\ Head(idbQueue).call = ResumeCaller
    /\ LET id == mgrResume.id
           o == mgrCreated + 1
           rec == IF id \in DOMAIN store THEN store[id] ELSE NoRecord
           r == ResumeResult(rec, mgrResume.file, o)
       IN  IF r.task = Undefined
           THEN /\ mgrResume' = Resuming("done", id, mgrResume.file, r.result, Undefined)
                /\ idbQueue' = Tail(idbQueue)
                /\ hooked' = <<>>
                /\ mgrReturned' = NoReturn
                /\ UNCHANGED <<regVars, mgrCreated, mgrThrew>>
           ELSE /\ tasks' = MapSet(tasks, id, o)
                /\ taskStatus' = [taskStatus EXCEPT ![o] = "idle"]
                /\ taskKey' = [taskKey EXCEPT ![o] = id]
                /\ taskSeed' = [taskSeed EXCEPT ![o] = r.seed]
                /\ mgrCreated' = mgrCreated + 1
                /\ LET h == CallPluginHook("onTaskCreated", o)
                   IN  /\ hooked' = h.log
                       /\ mgrReturned' = NoReturn
                       /\ mgrThrew' = (mgrThrew \/ h.threw)
                /\ IF r.result = "ok"
                   THEN /\ mgrResume' = Resuming("delete", id, mgrResume.file, "", o)
                        /\ idbQueue' = Append(Tail(idbQueue),
                                Txn("delete", id, NoRecord, NoPatch, ResumeCaller))
                   ELSE /\ mgrResume' = Resuming("done", id, mgrResume.file, r.result, Undefined)
                        /\ idbQueue' = Tail(idbQueue)
    /\ UNCHANGED <<initialized, mgrInits, mgrDeleted, mgrClearing, mgrCloses,
                   mgrFailed, plugins, dbOpen, nonMgr>>

\* the request of getRecord fails: resumeTask throws what the store threw
ResumeGetFails ==
    /\ mgrResume.phase = "get"
    /\ Len(idbQueue) > 0
    /\ Head(idbQueue).call = ResumeCaller
    /\ mgrResume' = Resuming("done", mgrResume.id, mgrResume.file,
                             "Failed to get record", Undefined)
    /\ idbQueue' = Tail(idbQueue)
    /\ hooked' = <<>>
    /\ mgrReturned' = NoReturn
    /\ UNCHANGED <<initialized, mgrInits, regVars, ghostVars, plugins, dbOpen, nonMgr>>

\* deleteRecord answers (ok) or fails, which is caught; resumeTask returns
\* the task
ResumeDeleted(ok) ==
    /\ mgrResume.phase = "delete"
    /\ Len(idbQueue) > 0
    /\ Head(idbQueue).call = ResumeCaller
    /\ store' = IF ok THEN [k \in DOMAIN store |->
                              IF k = mgrResume.id THEN NoRecord ELSE store[k]]
                ELSE store
    /\ mgrFailed' = (mgrFailed \/ ~ok)
    /\ idbQueue' = Tail(idbQueue)
    /\ mgrResume' = [mgrResume EXCEPT !.phase = "done", !.result = "ok"]
    /\ hooked' = <<>>
    /\ mgrReturned' = NoReturn
    /\ UNCHANGED <<initialized, mgrInits, regVars, mgrCreated, mgrDeleted,
                   mgrClearing, mgrThrew, mgrCloses, plugins, dbOpen,
                   ccVars, tkVars, adjVars, auxVars, calls, now>>

\* the plugin lists a manager can have been given
PluginLists == UNION {[1..n -> Plugins] : n \in 0..MaxPlugins}

\* the manager of a new session after init(), which opened the store or
\* failed to, and use(); the database may hold the record of an unfinished
\* upload
ResumeStart ==
    /\ initialized = TRUE
    /\ tasks = <<>>
    /\ taskStatus = [o \in Ids |-> "none"]
    /\ taskKey = [o \in Ids |-> Undefined]
    /\ taskSeed = [o \in Ids |-> NoRecord]
    /\ mgrInits = 0
    /\ mgrCreated = 0
    /\ mgrDeleted = {}
    /\ mgrClearing = <<>>
    /\ mgrThrew = FALSE
    /\ mgrCloses = 0
    /\ mgrFailed = FALSE
    /\ plugins \in PluginLists
    /\ hooked = <<>>
    /\ mgrReturned = [kind |-> "none"]
    /\ mgrResume = NoResume
    /\ dbOpen \in BOOLEAN
    /\ store \in [TaskIds -> {NoRecord} \cup {Unfinished(k, cs) : k \in TaskIds, cs \in {{}, {0}}}]
    /\ \A k \in TaskIds : store[k].taskId \in {0, k}
    /\ idbQueue = <<>>
    /\ calls = <<>>
    /\ now = 0

ResumeNext ==
    \/ \E id \in TaskIds \cup OtherIds, file \in Files : ResumeCall(id, file)
    \/ ResumeGot
    \/ ResumeGetFails
    \/ \E ok \in BOOLEAN : ResumeDeleted(ok)

\* no handler subscribed, no request made
BusIdle ==
    /\ handlers = <<>>
    /\ busLog = [type |-> "none", called |-> <<>>, threw |-> FALSE]
    /\ httpLast = [status |-> 0]
PluginStatsIdle == pluginStats = [kind |-> "none"]
TcpIdle == tcp = [kind |-> "none"]
BootIdle == boot = [kind |-> "none"]
AuxIdle == BusIdle /\ PluginStatsIdle /\ TcpIdle /\ BootIdle

CCIdle ==
    /\ currentLimit = 1
    /\ limiter = 1
    /\ limiters = <<NewLimiter(1)>>
    /\ fns = [f \in Fns |-> NoFn]
    /\ nSubmitted = 0

StoreInit == StoreStart /\ CCIdle /\ TaskIdle /\ AdjIdle /\ MgrIdle /\ AuxIdle

SpecStore == StoreInit /\ [][StoreNext]_vars

CCInit == CCStart /\ StoreIdle /\ TaskIdle /\ AdjIdle /\ MgrIdle /\ AuxIdle

AdjInit == AdjStart /\ CCIdle /\ StoreIdle /\ TaskIdle /\ MgrIdle /\ AuxIdle

MgrInit == MgrIdle /\ CCIdle /\ StoreIdle /\ TaskIdle /\ AdjIdle /\ AuxIdle

SpecMgr == MgrInit /\ [][MgrNext]_vars

\* ------------------------------------------------- event bus (createEventBus)
\* the events used, and the handlers subscribed to them: one that returns
\* and one that throws
EventTypes == {"start", "cancel"}
BusHandlers == [type : EventTypes, throws : BOOLEAN]

\* no emit since the handlers last changed
NoEmit == [type |-> "none", called |-> <<>>, threw |-> FALSE]

\* the places in hs of the handlers subscribed to type, in on() order
Subscribed(hs, type) ==
    SelectSeq([i \in 1..Len(hs) |-> i], LAMBDA i : hs[i].type = type)

\* emit(type, event) of the emitter createEventBus returns (mitt):
\* handlers.slice().map(handler => handler(event)), which calls the
\* handlers of the type in on() order and ends at the first that throws
EmitResult(hs, type) ==
    LET subs == Subscribed(hs, type)
        bad == {k \in 1..Len(subs) : hs[subs[k]].throws}
        last == IF bad = {} THEN Len(subs)
                ELSE CHOOSE k \in bad : \A j \in bad : k <= j
    IN  [type |-> type, called |-> SubSeq(subs, 1, last), threw |-> bad # {}]

\* on(type, handler)
On(h) ==
    /\ Len(handlers) < MaxHandlers
    /\ handlers' = Append(handlers, h)
    /\ busLog' = NoEmit
    /\ UNCHANGED <<httpLast, extVars, ccVars, stVars, tkVars, adjVars, mgrVars>>

\* off(type, handler) for the handler at place i
Off(i) ==
    /\ i \in 1..Len(handlers)
    /\ handlers' = SubSeq(handlers, 1, i - 1) \o SubSeq(handlers, i + 1, Len(handlers))
    /\ busLog' = NoEmit
    /\ UNCHANGED <<httpLast, extVars, ccVars, stVars, tkVars, adjVars, mgrVars>>

\* emit(type, event)
Emit(type) ==
    /\ busLog' = EmitResult(handlers, type)
    /\ UNCHANGED <<handlers, httpLast, extVars, ccVars, stVars, tkVars, adjVars, mgrVars>>

BusNext ==
    \/ \E h \in BusHandlers : On(h)
    \/ \E i \in 1..MaxHandlers : Off(i)
    \/ \E type \in EventTypes : Emit(type)

\* ------------------------------------------------- UploadController.getFile
\* a Range header with no end ("bytes=2-")
Open == -1

\* the requests: the file asked for (its size, whether its upload is
\* completed, whether the service finds its stream) and the Range header:
\* none, one the pattern bytes=(\d+)-(\d*) does not match, or bytes=start-end
RangeHeaders ==
    {[kind |-> "none"], [kind |-> "garbled"]}
        \cup [kind : {"bytes"}, start : 0..MaxFile, end : (0..MaxFile) \cup {Open}]
Requests ==
    [size : 1..MaxFile, completed : BOOLEAN, found : BOOLEAN, header : RangeHeaders]

NoRange == [start |-> -1, end |-> -1]
Min(a, b) == IF a <= b THEN a ELSE b

\* a Content-Length that leaves the last byte out
ContentLengthShort(range) == range.end - range.start

\* getFile: contentLength = range.end - range.start + 1
ContentLength(range) == range.end - range.start + 1

\* getFile: the range parsed from the header: end defaults to size - 1 and
\* is capped by it; no range when start is not below size
ParseRange(header, size) ==
    IF header.kind # "bytes" THEN NoRange
    ELSE LET end == IF header.end = Open THEN size - 1 ELSE header.end
         IN  IF header.start < size
             THEN [start |-> header.start, end |-> Min(end, size - 1)]
             ELSE NoRange

\* the reply of getFile to request r, and the range it asks the service for
GetFileReply(r) ==
    LET range == ParseRange(r.header, r.size)
    IN  IF ~r.completed \/ ~r.found
        THEN [req |-> r, status |-> 404, asked |-> NoRange, acceptRanges |-> "",
              contentRange |-> NoRange, total |-> 0, contentLength |-> 0]
        ELSE IF range # NoRange
        THEN [req |-> r, status |-> 206, asked |-> range, acceptRanges |-> "bytes",
              contentRange |-> range, total |-> r.size,
              contentLength |-> ContentLength(range)]
        ELSE [req |-> r, status |-> 200, asked |-> NoRange, acceptRanges |-> "bytes",
              contentRange |-> NoRange, total |-> r.size, contentLength |-> r.size]

\* GET files/:fileId
GetFile(r) ==
    /\ httpLast' = GetFileReply(r)
    /\ UNCHANGED <<handlers, busLog, extVars, ccVars, stVars, tkVars, adjVars, mgrVars>>

HttpNext == \E r \in Requests : GetFile(r)

\* ------------------------------------------------- UploadManager.getStatistics
\* the tasks of getAllTasks() whose getStatus() is the given one
CountOf(ts, st, which) ==
    Cardinality({i \in 1..Len(ts) : st[ts[i]] = which})

\* getStatistics(): total is tasks.length, and the switch counts the
\* statuses idle, uploading, paused, success, error and cancelled
GetStatisticsResult(ts, st) ==
    [kind |-> "stats", total |-> Len(ts),
     idle |-> CountOf(ts, st, "idle"),
     uploading |-> CountOf(ts, st, "uploading"),
     paused |-> CountOf(ts, st, "paused"),
     success |-> CountOf(ts, st, "success"),
     error |-> CountOf(ts, st, "error"),
     cancelled |-> CountOf(ts, st, "cancelled")]

GetStatistics ==
    /\ mgrReturned' = GetStatisticsResult(tasks, taskStatus)
    /\ hooked' = <<>>
    /\ UNCHANGED <<initialized, mgrInits, regVars, ghostVars, plugins, mgrResume,
                   dbOpen, idbQueue, nonMgr>>

\* a manager whose createTask made n tasks, each reporting one of the
\* values of UploadStatus
StatsStart ==
    /\ initialized = FALSE
    /\ \E n \in 0..MaxTasks :
          /\ tasks = [i \in 1..n |-> i]
          /\ taskKey = [o \in Ids |-> IF o <= n THEN o ELSE Undefined]
          /\ mgrCreated = n
          /\ taskStatus \in [Ids -> Statuses \cup {"none"}]
          /\ \A o \in Ids : taskStatus[o] = "none" <=> o > n
    /\ taskSeed = [o \in Ids |-> NoRecord]
    /\ mgrInits = 0
    /\ mgrDeleted = {}
    /\ mgrClearing = <<>>
    /\ mgrThrew = FALSE
    /\ mgrCloses = 0
    /\ mgrFailed = FALSE
    /\ plugins = <<>>
    /\ hooked = <<>>
    /\ mgrReturned = NoReturn
    /\ mgrResume = NoResume

StatsNext ==
    \/ GetStatistics
    \/ CreateTask
    \/ \E id \in Ids : DeleteTask(id)

\* ------------------------------------------------ UploadManager.init, step by step
\* a manager just constructed, in a browser that has IndexedDB or not, with
\* the option autoResumeUnfinished set or not; the database may hold the
\* records of unfinished uploads. waiting: the init() calls under way, each
\* awaiting storage.init() ("open") or getAllRecords() ("load")
FreshBoot(auto, supported) ==
    [kind |-> "boot", autoResume |-> auto, supported |-> supported,
     waiting |-> <<>>, made |-> 0, returned |-> 0, opens |-> 0, loads |-> 0]

\* the calls under way without the one at place i
Without(w, i) == SubSeq(w, 1, i - 1) \o SubSeq(w, i + 1, Len(w))

\* init() is called: it returns at once when initialized; else it calls
\* storage.init(), which opens the database when IndexedDB is supported and
\* rejects otherwise
BootCall ==
    /\ boot.kind = "boot"
    /\ boot.made < MaxInits
    /\ IF initialized
       THEN /\ boot' = [boot EXCEPT !.made = @ + 1, !.returned = @ + 1]
            /\ mgrInits' = mgrInits
       ELSE /\ boot' = [boot EXCEPT !.made = @ + 1,
                                    !.waiting = Append(@, "open"),
                                    !.opens = IF boot.supported THEN @ + 1 ELSE @]
            /\ mgrInits' = mgrInits + 1
    /\ UNCHANGED <<initialized, regVars, ghostVars, plugins, hooked, mgrResume,
                   mgrReturned, pluginStats, tcp, handlers, busLog, httpLast,
                   ccVars, stVars, tkVars, adjVars>>

\* storage.init() settles for the call at place i (ok: the database opened):
\* with autoResumeUnfinished and an available store loadUnfinishedTasks
\* awaits getAllRecords(); else the call marks the manager initialized,
\* in the try block or in the catch block, and returns
BootOpened(i, ok) ==
    /\ boot.kind = "boot"
    /\ i \in 1..Len(boot.waiting)
    /\ boot.waiting[i] = "open"
    /\ ok => boot.supported
    /\ dbOpen' = (dbOpen \/ ok)
    /\ IF ok /\ boot.autoResume
       THEN /\ boot' = [boot EXCEPT !.waiting[i] = "load", !.loads = @ + 1]
            /\ UNCHANGED <<initialized, mgrInits>>
       ELSE /\ boot' = [boot EXCEPT !.waiting = Without(@, i), !.returned = @ + 1]
            /\ initialized' = TRUE
            /\ mgrInits' = mgrInits - 1
    /\ UNCHANGED <<regVars, ghostVars, plugins, hooked, mgrResume, mgrReturned,
                   pluginStats, tcp, handlers, busLog, httpLast,
                   ccVars, store, idbQueue, calls, now, tkVars, adjVars>>

\* getAllRecords() settles for the call at place i, with the records or
\* with an error that loadUnfinishedTasks swallows: nothing is done with the
\* records, and the call marks the manager initialized and returns
BootLoaded(i) ==
    /\ boot.kind = "boot"
    /\ i \in 1..Len(boot.waiting)
    /\ boot.waiting[i] = "load"
    /\ boot' = [boot EXCEPT !.waiting = Without(@, i), !.returned = @ + 1]
    /\ initialized' = TRUE
    /\ mgrInits' = mgrInits - 1
    /\ UNCHANGED <<regVars, ghostVars, plugins, hooked, mgrResume, mgrReturned,
                   pluginStats, tcp, handlers, busLog, httpLast,
                   ccVars, stVars, tkVars, adjVars>>

BootStart ==
    /\ \E auto \in BOOLEAN, supported \in BOOLEAN : boot = FreshBoot(auto, supported)
    /\ dbOpen = FALSE
    /\ store \in [TaskIds -> {NoRecord} \cup {Unfinished(k, cs) : k \in TaskIds, cs \in {{}, {0}}}]
    /\ \A k \in TaskIds : store[k].taskId \in {0, k}
    /\ idbQueue = <<>>
    /\ calls = <<>>
    /\ now = 0

BootNext ==
    \/ BootCall
    \/ \E i \in 1..MaxInits, ok \in BOOLEAN : BootOpened(i, ok)
    \/ \E i \in 1..MaxInits : BootLoaded(i)

\* -------------------------------------------------------- TCPChunkSizeAdjuster
\* Sizes are counted in half bytes: the default initialSsthresh is
\* maxSize / 2, which is a fraction when maxSize is odd.
TcpSizes == 1..MaxSize
TcpTargets == 1..MaxTarget
\* options.initialSsthresh is undefined
DefaultSsthresh == 0

\* the options handed to the constructor; initialSsthresh may be left out
TcpOptions ==
    [initialSize : TcpSizes, minSize : TcpSizes, maxSize : TcpSizes,
     targetTime : TcpTargets, initialSsthresh : TcpSizes \cup {DefaultSsthresh}]

\* options.initialSsthresh ?? options.maxSize / 2, in half bytes
InitialSsthresh(o) ==
    IF o.initialSsthresh = DefaultSsthresh THEN o.maxSize ELSE 2 * o.initialSsthresh

\* validate() does not throw
TcpAccepts(o) ==
    /\ ~(o.minSize > o.maxSize)
    /\ ~(o.initialSize < o.minSize \/ o.initialSize > o.maxSize)
    /\ ~(o.targetTime <= 0)
    /\ ~(InitialSsthresh(o) < 2 * o.minSize \/ InitialSsthresh(o) > 2 * o.maxSize)

IntMin(a, b) == IF a <= b THEN a ELSE b
IntMax(a, b) == IF a >= b THEN a ELSE b
\* Math.floor(x * 0.1) and Math.floor(x / 2) of a size in half bytes
FloorTenth(h) == 2 * (h \div 20)
FloorHalf(h) == 2 * (h \div 4)

\* handleFastUpload in slow start: double, or stop at ssthresh
SlowStart(a) ==
    IF 2 * a.currentSize >= a.ssthresh
    THEN [a EXCEPT !.currentSize = a.ssthresh, !.state = "congestion_avoidance"]
    ELSE [a EXCEPT !.currentSize = IntMin(2 * a.currentSize, 2 * a.options.maxSize)]

HandleFastUpload(a) ==
    CASE a.state = "slow_start" -> SlowStart(a)
      [] a.state = "congestion_avoidance" ->
            [a EXCEPT !.currentSize =
                IntMin(a.currentSize
                         + IntMax(2 * a.options.minSize, FloorTenth(a.currentSize)),
                       2 * a.options.maxSize)]
      [] a.state = "fast_recovery" -> [a EXCEPT !.state = "congestion_avoidance"]

HandleSlowUpload(a) ==
    LET half == IntMax(2 * a.options.minSize, FloorHalf(a.currentSize))
    IN  [a EXCEPT !.ssthresh = half, !.currentSize = half, !.state = "fast_recovery"]

\* adjust(uploadTimeMs) for a time that is not negative, t2 in half
\* milliseconds: the branch taken, then the clamp to [minSize, maxSize]
TcpAdjustResult(a, t2) ==
    LET b == IF t2 < a.options.targetTime
             THEN HandleFastUpload([a EXCEPT !.fast = @ + 1, !.slow = 0])
             ELSE IF t2 > 3 * a.options.targetTime
             THEN HandleSlowUpload([a EXCEPT !.slow = @ + 1, !.fast = 0])
             ELSE [a EXCEPT !.fast = 0, !.slow = 0]
    IN  [b EXCEPT !.currentSize =
            IntMax(2 * a.options.minSize, IntMin(b.currentSize, 2 * a.options.maxSize))]

\* new TCPChunkSizeAdjuster(options), and reset()
FreshTcp(o, n) ==
    [kind |-> "tcp", options |-> o, currentSize |-> 2 * o.initialSize,
     ssthresh |-> InitialSsthresh(o), state |-> "slow_start", fast |-> 0, slow |-> 0,
     calls |-> n, time |-> -1, returned |-> 0]

\* adjust(uploadTimeMs); a negative time throws
TcpAdjust(t2) ==
    /\ tcp.kind = "tcp"
    /\ tcp.calls < MaxAdjusts
    /\ tcp' = IF t2 < 0 THEN [tcp EXCEPT !.calls = @ + 1, !.time = t2, !.returned = 0]
              ELSE LET b == TcpAdjustResult(tcp, t2)
                   IN  [b EXCEPT !.calls = @ + 1, !.time = t2,
                                 !.returned = b.currentSize]
    /\ UNCHANGED <<pluginStats, boot, handlers, busLog, httpLast,
                   ccVars, stVars, tkVars, adjVars, mgrVars>>

\* reset()
TcpReset ==
    /\ tcp.kind = "tcp"
    /\ tcp' = FreshTcp(tcp.options, tcp.calls)
    /\ UNCHANGED <<pluginStats, boot, handlers, busLog, httpLast,
                   ccVars, stVars, tkVars, adjVars, mgrVars>>

TcpStart == \E o \in {x \in TcpOptions : TcpAccepts(x)} : tcp = FreshTcp(o, 0)

TcpNext ==
    \/ \E t2 \in HalfTimes : TcpAdjust(t2)
    \/ TcpReset

\* ------------------------------------------------------------ StatisticsPlugin
\* the tasks whose hooks the plugin is called with; task t has a file of
\* t bytes
StatTasks == 1..MaxTasks

\* a quotient of two integers, kept as the pair; the value 0 is 0 over 1
Zero == [num |-> 0, den |-> 1]
\* n / d
Ratio(n, d) == [num |-> n, den |-> d]
\* a rate that is not scaled to a percentage
Unscaled(n, d) == [num |-> n, den |-> d]
\* (n / d) * 100
Percent(n, d) == [num |-> n * 100, den |-> d]
\* (n / d) * 1000
PerSecond(n, d) == [num |-> n * 1000, den |-> d]

\* new StatisticsPlugin(), and reset(): all counts 0, no start times
FreshStats(clock, hooks) ==
    [kind |-> "stats", totalFiles |-> 0, successCount |-> 0, errorCount |-> 0,
     cancelledCount |-> 0, totalBytesUploaded |-> 0, totalUploadTime |-> 0,
     startTimes |-> [t \in StatTasks |-> Absent],
     clock |-> clock, hooks |-> hooks, returned |-> [kind |-> "none"]]

\* a hook is called: one more call, and what an earlier getStats() returned
\* is no longer the latest
Hooked(p) == [p EXCEPT !.hooks = @ + 1, !.returned = [kind |-> "none"]]

OnTaskCreated(t) ==
    /\ pluginStats.kind = "stats"
    /\ pluginStats.hooks < MaxHooks
    /\ pluginStats' = [Hooked(pluginStats) EXCEPT !.totalFiles = @ + 1]
    /\ UNCHANGED <<tcp, boot, handlers, busLog, httpLast,
                   ccVars, stVars, tkVars, adjVars, mgrVars>>

OnTaskStart(t) ==
    /\ pluginStats.kind = "stats"
    /\ pluginStats.hooks < MaxHooks
    /\ pluginStats' = [Hooked(pluginStats) EXCEPT !.startTimes[t] = pluginStats.clock]
    /\ UNCHANGED <<tcp, boot, handlers, busLog, httpLast,
                   ccVars, stVars, tkVars, adjVars, mgrVars>>

\* onTaskSuccess: the upload time is added when a start time is known
OnTaskSuccess(t) ==
    /\ pluginStats.kind = "stats"
    /\ pluginStats.hooks < MaxHooks
    /\ LET p == Hooked(pluginStats)
           start == pluginStats.startTimes[t]
       IN  pluginStats' =
             [p EXCEPT !.successCount = @ + 1,
                       !.totalBytesUploaded = @ + t,
                       !.totalUploadTime =
                           IF start # Absent THEN @ + (p.clock - start) ELSE @,
                       !.startTimes[t] = Absent]
    /\ UNCHANGED <<tcp, boot, handlers, busLog, httpLast,
                   ccVars, stVars, tkVars, adjVars, mgrVars>>

OnTaskError(t) ==
    /\ pluginStats.kind = "stats"
    /\ pluginStats.hooks < MaxHooks
    /\ pluginStats' = [Hooked(pluginStats) EXCEPT !.errorCount = @ + 1,
                                                  !.startTimes[t] = Absent]
    /\ UNCHANGED <<tcp, boot, handlers, busLog, httpLast,
                   ccVars, stVars, tkVars, adjVars, mgrVars>>

OnTaskCancel(t) ==
    /\ pluginStats.kind = "stats"
    /\ pluginStats.hooks < MaxHooks
    /\ pluginStats' = [Hooked(pluginStats) EXCEPT !.cancelledCount = @ + 1,
                                                  !.startTimes[t] = Absent]
    /\ UNCHANGED <<tcp, boot, handlers, busLog, httpLast,
                   ccVars, stVars, tkVars, adjVars, mgrVars>>

\* getStats(): the counts, and the quotients, which are 0 when the divisor is
GetStatsResult(p) ==
    LET completedCount == p.successCount + p.errorCount + p.cancelledCount
    IN  [kind |-> "stats",
         totalFiles |-> p.totalFiles,
         successCount |-> p.successCount,
         errorCount |-> p.errorCount,
         cancelledCount |-> p.cancelledCount,
         totalBytesUploaded |-> p.totalBytesUploaded,
         averageSpeed |-> IF p.totalUploadTime > 0
                          THEN PerSecond(p.totalBytesUploaded, p.totalUploadTime)
                          ELSE Zero,
         averageUploadTime |-> IF p.successCount > 0
                               THEN Ratio(p.totalUploadTime, p.successCount)
                               ELSE Zero,
         successRate |-> IF completedCount > 0
                         THEN Percent(p.successCount, completedCount) ELSE Zero,
         errorRate |-> IF completedCount > 0
                       THEN Percent(p.errorCount, completedCount) ELSE Zero]

GetStats ==
    /\ pluginStats.kind = "stats"
    /\ pluginStats' = [pluginStats EXCEPT !.returned = GetStatsResult(pluginStats)]
    /\ UNCHANGED <<tcp, boot, handlers, busLog, httpLast,
                   ccVars, stVars, tkVars, adjVars, mgrVars>>

\* reset()
ResetStats ==
    /\ pluginStats.kind = "stats"
    /\ pluginStats' = FreshStats(pluginStats.clock, pluginStats.hooks)
    /\ UNCHANGED <<tcp, boot, handlers, busLog, httpLast,
                   ccVars, stVars, tkVars, adjVars, mgrVars>>

\* a millisecond passes (Date.now())
StatsTick ==
    /\ pluginStats.kind = "stats"
    /\ pluginStats.clock <= MaxClock
    /\ pluginStats' = [pluginStats EXCEPT !.clock = @ + 1]
    /\ UNCHANGED <<tcp, boot, handlers, busLog, httpLast,
                   ccVars, stVars, tkVars, adjVars, mgrVars>>

PluginStatsStart == pluginStats = FreshStats(1, 0)

PluginStatsNext ==
    \/ \E t \in StatTasks :
          \/ OnTaskCreated(t)
          \/ OnTaskStart(t)
          \/ OnTaskSuccess(t)
          \/ OnTaskError(t)
          \/ OnTaskCancel(t)
    \/ GetStats
    \/ ResetStats
    \/ StatsTick

\* a manager with plugins: use(), the tasks' events and what cancels tasks
PlugNext ==
    \/ \E p \in Plugins : Use(p)
    \/ CreateTask
    \/ \E o \in Ids : TaskStarts(o)
    \/ \E o \in Ids, st \in {"success", "error"} : TaskEnds(o, st)
    \/ \E o \in Ids : TaskCancels(o)
    \/ MgrPauseAll
    \/ MgrResumeAll
    \/ MgrCancelAll
    \/ \E id \in Ids : DeleteTask(id)
    \/ MgrClose

SpecPlug == MgrInit /\ [][PlugNext]_vars

AuxInit == AuxIdle /\ CCIdle /\ StoreIdle /\ TaskIdle /\ AdjIdle /\ MgrIdle

SpecBus == AuxInit /\ [][BusNext]_vars

SpecHttp == AuxInit /\ [][HttpNext]_vars

BootInit ==
    /\ BootStart /\ MgrIdle /\ PluginStatsIdle /\ TcpIdle /\ BusIdle
    /\ CCIdle /\ TaskIdle /\ AdjIdle

SpecBoot == BootInit /\ [][BootNext]_vars

TcpInit ==
    /\ TcpStart /\ PluginStatsIdle /\ BootIdle /\ BusIdle
    /\ CCIdle /\ StoreIdle /\ TaskIdle /\ AdjIdle /\ MgrIdle

SpecTcp == TcpInit /\ [][TcpNext]_vars

PluginStatsInit ==
    /\ PluginStatsStart /\ TcpIdle /\ BootIdle /\ BusIdle
    /\ CCIdle /\ StoreIdle /\ TaskIdle /\ AdjIdle /\ MgrIdle

SpecStatsPlugin == PluginStatsInit /\ [][PluginStatsNext]_vars

StatsInit == StatsStart /\ CCIdle /\ StoreIdle /\ TaskIdle /\ AdjIdle /\ AuxIdle

SpecStats == StatsInit /\ [][StatsNext]_vars

ResumeInit == ResumeStart /\ CCIdle /\ TaskIdle /\ AdjIdle /\ AuxIdle

SpecResume == ResumeInit /\ [][ResumeNext]_vars

SpecAdj == AdjInit /\ [][AdjNext]_vars

SpecCC == CCInit /\ [][CCNext]_vars

\* Scheduling: a deferred start check is a microtask and always runs; the
\* functions handed to run are taken to settle once started.
CCFairness ==
    /\ \A g \in 1..MaxGens : WF_vars(Check(g))
    /\ \A f \in Fns : WF_vars(\E ok \in BOOLEAN : Settle(f, ok))

SpecCCFair == CCInit /\ [][CCNext]_vars /\ CCFairness

\* ------------------------------------------------- properties of the store
\* a record with its time stamp left out of the comparison
Untimed(r) == [r EXCEPT !.updatedAt = 0]

RECURSIVE ApplyInOrder(_, _, _)
\* the record after the patches ps were applied to r one after another
ApplyInOrder(r, k, ps) ==
    IF ps = <<>> THEN r
    ELSE ApplyInOrder(Merge(r, Head(ps), k, 0), k, Tail(ps))

\* the orders in which n calls can be put
Orders(n) == {o \in [1..n -> 1..n] : \A i, j \in 1..n : o[i] = o[j] => i = j}

\* every call made so far was an updateRecord of key k that succeeded
OnlyUpdatesDone(k) ==
    /\ idbQueue = <<>>
    /\ \A c \in 1..Len(calls) :
          calls[c].op = "update" /\ calls[c].key = k /\ calls[c].result = "ok"

\* C5: when updateRecord calls for one taskId have all completed, whether or
\* not they overlapped, the stored record is what applying their patches one
\* after another, in some order, to the record saved before them gives.
C5_UpdatesSerialized ==
    \A k \in TaskIds :
        (OnlyUpdatesDone(k) /\ Len(calls) > 0) =>
            \E o \in Orders(Len(calls)) :
                Untimed(store[k]) =
                    Untimed(ApplyInOrder(SavedRecord(k), k,
                                [i \in 1..Len(calls) |-> calls[o[i]].patch]))

\* the oldest transaction, of kind op, runs in this step
Runs(op) ==
    /\ Len(idbQueue) > 0
    /\ Head(idbQueue).op = op
    /\ idbQueue' # idbQueue
    /\ Len(idbQueue') <= Len(idbQueue)

\* C17: updateRecord(taskId, patch) on an existing record writes, under the
\* key taskId, the record it read with the fields the patch names set, the
\* other fields unchanged, taskId equal to the key whatever the patch names,
\* and updatedAt not earlier than the updatedAt it read.
C17_UpdateMerges ==
    /\ [][(Runs("get") /\ IsAvailable /\ store[Head(idbQueue).key] # NoRecord) =>
            LET q == Head(idbQueue)
                existing == store[q.key]
                put == idbQueue'[Len(idbQueue')]
                r == put.rec
            IN  /\ Len(idbQueue') = Len(idbQueue)
                /\ put.op = "put" /\ put.call = q.call
                /\ r.taskId = q.key
                /\ r.fileInfo = existing.fileInfo
                /\ r.createdAt = existing.createdAt
                /\ r.uploadedChunks =
                       IF q.patch.uploadedChunks = NoPatch.uploadedChunks
                       THEN existing.uploadedChunks ELSE q.patch.uploadedChunks
                /\ r.uploadToken =
                       IF q.patch.uploadToken = NoPatch.uploadToken
                       THEN existing.uploadToken ELSE q.patch.uploadToken
                /\ r.updatedAt >= existing.updatedAt]_vars
    /\ [][Runs("put") =>
            LET q == Head(idbQueue)
            IN  /\ q.rec.taskId = q.key
                /\ store' = [store EXCEPT ![q.key] = q.rec]]_vars

\* an updateRecord whose patch names another taskId has completed after
\* time passed: the record is still under its key, with its other fields
C17_Witness ==
    \E c \in 1..Len(calls), k \in TaskIds :
        /\ calls[c].op = "update" /\ calls[c].key = k
        /\ calls[c].patch \in {TaskIdPatch(t) : t \in OtherIds}
        /\ calls[c].result = "ok"
        /\ store[k].taskId = k
        /\ store[k].uploadToken = "tokA"
        /\ store[k].updatedAt > store[k].createdAt

\* a call on the store is made in this step
Called == Len(calls') = Len(calls) + 1

\* C18: a saveRecord, updateRecord, deleteRecord or clearAll call made while
\* the store is not initialised or closed fails with STORAGE_UNAVAILABLE and
\* neither changes the records nor leaves a transaction behind.
C18_UnavailableFails ==
    [][(Called /\ ~dbOpen) =>
        /\ calls'[Len(calls')].op \in {"save", "update", "delete", "clear"}
        /\ calls'[Len(calls')].result = "STORAGE_UNAVAILABLE"
        /\ store' = store
        /\ idbQueue' = idbQueue]_vars

\* a record was saved, the store was closed, and a clearAll made then has
\* failed, the record still being there
C18_Witness ==
    /\ ~dbOpen
    /\ Len(calls) = 2
    /\ calls[1].op = "save" /\ calls[1].result = "ok"
    /\ calls[2].op = "clear" /\ calls[2].result = "STORAGE_UNAVAILABLE"
    /\ \E k \in TaskIds : store[k].fileInfo = "fileB"

\* ------------------------------------------------- properties of the task
\* the changes of status the state machine allows
Transitions ==
    {<<"idle", "uploading">>, <<"uploading", "paused">>,
     <<"uploading", "success">>, <<"uploading", "error">>,
     <<"uploading", "cancelled">>, <<"paused", "uploading">>,
     <<"paused", "cancelled">>}

\* the uploadChunk calls started and not yet settled
InFlight == {f \in Fns : unit[f].phase = "inflight"}

\* no uploadChunk call is made in this step, for the first time or again
NoUploadStarts ==
    \A f \in Fns : unit'[f].phase = "inflight" => unit'[f] = unit[f]

\* C1: the status is always one of the seven values, and every change of
\* status is one of the seven listed transitions.
C1_StatusMachine ==
    /\ [](status \in Statuses)
    /\ [][status' # status => <<status, status'>> \in Transitions]_vars

\* the task succeeded after it had been paused and resumed (chunks were
\* submitted a second time)
C1_Witness ==
    /\ status = "success"
    /\ nSubmitted > plan

\* C2: a status of success, error or cancelled never changes, whatever
\* operation is invoked and whatever upload still in flight completes.
C2_TerminalIsFinal ==
    [][(status \in Terminal) => status' = status]_vars

\* the status is terminal, an upload that was in flight has ended since
\* and another one is still in flight
C2_Witness ==
    /\ status \in Terminal
    /\ InFlight # {}
    /\ emitted = {}
    /\ \E f \in Fns : fns[f].st = "resolved"

\* C3: the uploadChunk calls of the task started and not yet settled are
\* never more than the configured concurrency.
C3_ConcurrencyCap ==
    Cardinality(InFlight) <= options.concurrency

\* as many uploads in flight as the concurrency allows, one of them a
\* retry, while another chunk waits in the controller's queue
C3_Witness ==
    /\ Cardinality(InFlight) = options.concurrency
    /\ \E f \in InFlight : unit[f].attempt > 1
    /\ Len(limiters[limiter].queue) > 0

\* after cancel() the status is cancelled and stays so, no uploadChunk call
\* is started, no progress event is emitted and no call is made on the store
CancelStopsWork ==
    /\ [][(status \in {"uploading", "paused"} /\ "cancel" \in emitted')
            => status' = "cancelled"]_vars
    /\ [][status = "cancelled" =>
            /\ status' = "cancelled"
            /\ NoUploadStarts
            /\ "progress" \notin emitted'
            /\ Len(idbQueue') <= Len(idbQueue)]_vars

\* once the store has nothing left to do for a cancelled task, the task's
\* record is absent
RecordStaysAbsent ==
    [](status = "cancelled" /\ idbQueue = <<>> => store[TheTask] = NoRecord)

\* C6: after cancel() the status is cancelled, nothing unstarted starts,
\* uploads in flight cause no progress event and no store write, and the
\* progress record is deleted and remains absent.
C6_CancelDiscards ==
    /\ CancelStopsWork
    /\ RecordStaysAbsent

\* the retries a chunk has: the retryCount asked for, 3 when none was
Budget == IF options.asked = Absent THEN 3 ELSE options.asked

\* C7: a failed uploadChunk call is tried again until retryCount + 1
\* attempts were made (retryCount is 3 when not given); when the last one
\* fails the status becomes error; and the chunks that succeeded before are
\* in the stored progress record.
C7_RetryThenError ==
    /\ [](\A f \in Fns : unit[f].attempt <= Budget + 1)
    /\ [][\A f \in Fns :
            (/\ status = "uploading"
             /\ unit[f].phase = "inflight"
             /\ unit'[f].phase # "inflight"
             /\ "chunkError" \in emitted')
                => IF unit[f].attempt < Budget + 1
                   THEN /\ unit'[f] = [unit[f] EXCEPT !.phase = "backoff"]
                        /\ status' = "uploading"
                   ELSE status' = "error"]_vars
    /\ [][\A f \in Fns :
            (/\ status = "uploading"
             /\ unit[f].phase = "backoff"
             /\ unit'[f] # unit[f])
                => unit'[f] = [unit[f] EXCEPT !.phase = "inflight",
                                              !.attempt = @ + 1]]_vars
    /\ [](status = "error" /\ idbQueue = <<>> /\ uploaded # {}
            => /\ store[TheTask].taskId = TheTask
               /\ store[TheTask].uploadedChunks = uploaded)

\* a chunk failed on its first attempt and on every retry, the task is in
\* error, and the chunk uploaded before is in the stored record
C7_Witness ==
    /\ status = "error"
    /\ options.retryCount > 0
    /\ \E f \in Fns : fns[f].st = "rejected"
    /\ uploaded # {}
    /\ idbQueue = <<>>
    /\ store[TheTask].uploadedChunks = uploaded

\* C8: pause() makes an uploading task paused without touching the uploads
\* in flight; while paused no uploadChunk call is started and an upload in
\* flight that succeeds is counted; resume() makes the task uploading and
\* submits every chunk not yet uploaded, so that while the task is uploading
\* with its token every such chunk has a submitted work unit.
C8_PauseResume ==
    /\ [][(status = "uploading" /\ "pause" \in emitted')
            => (status' = "paused" /\ unit' = unit)]_vars
    /\ [][status = "paused" => NoUploadStarts]_vars
    /\ [][\A f \in Fns :
            (/\ status = "paused"
             /\ unit[f].phase = "inflight"
             /\ unit'[f].phase = "none"
             /\ "chunkError" \notin emitted')
                => unit[f].chunk \in uploaded']_vars
    /\ [][(status = "paused" /\ "resume" \in emitted')
            => (/\ status' = "uploading"
                /\ (token = "ok" =>
                      \A c \in Plan \ uploaded :
                         \E f \in Fns : (/\ fns[f].st = "none"
                                         /\ fns'[f].st = "queued"
                                         /\ unit'[f].chunk = c)))]_vars
    /\ [](status = "uploading" /\ token = "ok"
            => \A c \in Plan \ uploaded :
                  \E f \in Fns : unit[f].chunk = c /\ unit[f].phase # "none")

\* after a pause and a resume, a chunk submitted again is being uploaded
\* while a chunk that completed during the pause is counted
C8_Witness ==
    /\ status = "uploading"
    /\ uploaded # {}
    /\ \E f \in InFlight : f > plan

\* ------------------------------------------------- properties of the controller
\* the functions that have started and not yet settled
Running == {f \in Fns : fns[f].st = "running"}

\* updateLimit was never called on the controller
NeverUpdated == Len(limiters) = 1

\* C4: with limit L and no updateLimit call, at most L functions are running
\* at any moment, and whenever a queued function starts, fewer than L other
\* functions are running at that moment.
C4_LimitRespected ==
    /\ [](NeverUpdated => Cardinality(Running) <= currentLimit)
    /\ [][NeverUpdated' =>
            \A f \in Fns :
                (fns[f].st = "queued" /\ fns'[f].st = "running")
                    => Cardinality(Running' \ {f}) < currentLimit]_vars

\* a function that had to wait was started by next() while the limiter,
\* never replaced, is full and another function still waits
C4_Witness ==
    /\ NeverUpdated
    /\ Cardinality(Running) = currentLimit
    /\ \E f \in Fns : fns[f].st = "running" /\ fns[f].waited
    /\ Len(limiters[1].queue) > 0

\* C9: every function handed to run eventually leaves the queue: it starts,
\* unless clearQueue removes it; also when it was queued at an updateLimit.
C9_EventuallyStarts ==
    \A f \in Fns :
        (fns[f].st = "queued") ~> (fns[f].st \in {"running", "cleared"})

\* a function that was queued when updateLimit was called is running
C9_Witness ==
    \E f \in Fns : fns[f].st = "running" /\ fns[f].atUpdate /\ fns[f].waited

\* a queued function whose start check has run: it has to wait for a slot
HasToWait(a) ==
    fns[a].st = "queued" /\ limiters[fns[a].lim].checks = 0

\* C10 as stated: if A was submitted before B and both had to wait, B is
\* never started while A still waits.
C10_FifoAcrossLimiters ==
    \A a, b \in Fns :
        (a < b /\ fns[b].st = "running" /\ fns[b].waited) => ~HasToWait(a)

\* C10, amended: of two functions submitted to the same limiter (no
\* updateLimit call between their submissions), the later one is never
\* started while the earlier one is still queued.
C10_FifoPerLimiter ==
    \A a, b \in Fns :
        (a < b /\ fns[b].st = "running" /\ fns[a].lim = fns[b].lim)
            => fns[a].st # "queued"

\* two functions of one limiter both had to wait and the earlier one has
\* started by next() while the later one is still waiting
C10_Witness ==
    \E a, b \in Fns :
        /\ a < b /\ fns[a].lim = fns[b].lim
        /\ fns[a].st = "running" /\ fns[a].waited
        /\ HasToWait(b)

\* a clearQueue() call is made in this step
ClearQueueCalled ==
    \E f \in Fns :
        /\ fns[f].st = "queued"
        /\ fns'[f].st = "cleared" \/ (fns'[f].atClear /\ ~fns[f].atClear)

\* C11: a function that was submitted and not yet started when clearQueue()
\* was called never starts, whatever run and updateLimit calls came before;
\* right after the call pendingCount is 0 and the functions that were
\* executing still are.
C11_ClearQueueStopsAll ==
    /\ [](\A f \in Fns : fns[f].atClear => fns[f].st # "running")
    /\ [][ClearQueueCalled =>
            /\ PendingCount' = 0
            /\ \A f \in Fns : fns[f].st = "running" => fns'[f] = fns[f]]_vars
\* the functions of limiter g that are executing
RunningOf(g) == {f \in Fns : fns[f].st = "running" /\ fns[f].lim = g}

\* C12: updateLimit(n) with n > 0 makes getLimit() return n; of the
\* functions submitted after a call (to the limiter it created) at most n
\* execute at the same time; the functions executing at the call go on;
\* updateLimit(n) with n <= 0 throws and changes nothing.
C12_UpdateLimit ==
    /\ [](\A n \in Limits :
             /\ ~UpdateLimitResult(n).threw
             /\ UpdateLimitResult(n).currentLimit = n)
    /\ [](GetLimit = limiters[limiter].concurrency)
    /\ [](\A g \in 1..Len(limiters) :
             Cardinality(RunningOf(g)) <= limiters[g].concurrency)
    /\ [][Len(limiters') > Len(limiters) =>
            \A f \in Fns : fns[f].st = "running" => fns'[f] = fns[f]]_vars
    /\ [](\A n \in BadLimits :
             /\ UpdateLimitResult(n).threw
             /\ UpdateLimitResult(n).currentLimit = currentLimit
             /\ UpdateLimitResult(n).limiters = limiters
             /\ UpdateLimitResult(n).limiter = limiter)

\* after an updateLimit that changed the limit, as many functions submitted
\* since execute as the new limit allows, beside one from before the call
C12_Witness ==
    /\ Len(limiters) = 2
    /\ GetLimit # limiters[1].concurrency
    /\ Cardinality(RunningOf(2)) = GetLimit
    /\ RunningOf(1) # {}
    /\ PendingCount > 0
\* C13: when a function fails, only its own promise rejects: no other
\* function is settled or removed by it, and its slot is released: the
\* head of its limiter's queue starts in its place, or the active count
\* drops by one.
C13_FailureIsolated ==
    [][\A f \in Fns :
         (fns[f].st = "running" /\ fns'[f].st = "rejected") =>
            LET g == fns[f].lim
                l == limiters[g]
            IN  /\ \A h \in Fns \ {f} :
                      \/ fns'[h].st = fns[h].st
                      \/ fns[h].st = "queued" /\ fns'[h].st = "running"
                /\ IF Len(l.queue) > 0
                   THEN /\ fns'[Head(l.queue)].st = "running"
                        /\ limiters'[g].activeCount = l.activeCount
                   ELSE limiters'[g].activeCount = l.activeCount - 1]_vars

\* a function has failed, the function queued behind it runs in its slot
\* and another one has resolved
C13_Witness ==
    \E f, h, k \in Fns :
        /\ fns[f].st = "rejected"
        /\ f < h /\ fns[h].st = "running" /\ fns[h].waited
        /\ fns[k].st = "resolved"

\* ------------------------------------------------- properties of the adjuster
\* C14: for every adjuster the constructor accepts and every sequence of
\* adjust and reset calls, minSize <= getCurrentSize() <= maxSize after each
\* call, and the value adjust returned is getCurrentSize().
C14_BoundsAlways ==
    /\ Le(Q(adjOptions.minSize), GetCurrentSize)
    /\ Le(GetCurrentSize, Q(adjOptions.maxSize))
    /\ adjReturned # NoSize => adjReturned = GetCurrentSize

AdjustedAll(kind) == adjCalls' = adjCalls + 1 /\ adjRun' = kind

\* C16: if every call since construction or reset is fast, the size
\* doubles (capped at maxSize) on each call, moving up until it equals
\* maxSize, and then stays; if every call is slow it halves (capped at
\* minSize), moving down until it equals minSize, and then stays.
C16_ReachesBound ==
    /\ [][AdjustedAll("fast") =>
            IF adjCurrent = Q(adjOptions.maxSize)
            THEN adjCurrent' = adjCurrent
            ELSE /\ adjCurrent' = QMin(Dbl(adjCurrent), Q(adjOptions.maxSize))
                 /\ Lt(adjCurrent, adjCurrent')]_vars
    /\ [][AdjustedAll("slow") =>
            IF adjCurrent = Q(adjOptions.minSize)
            THEN adjCurrent' = adjCurrent
            ELSE /\ adjCurrent' = QMax(Half(adjCurrent), Q(adjOptions.minSize))
                 /\ Lt(adjCurrent', adjCurrent)]_vars
\* ------------------------------------------------- properties of the manager
\* the tasks created and not deleted
Live == (1..mgrCreated) \ mgrDeleted

\* C19: init() completes with isInitialized() true whether or not the store
\* opened and no call on the manager fails; while the store is unavailable
\* createTask registers the task, deleteTask and clearCompletedTasks remove
\* tasks without touching the store, and pauseAll, resumeAll and cancelAll
\* move every registered task they apply to.
C19_WorksWithoutStore ==
    /\ [](~mgrThrew)
    /\ [][mgrInits' < mgrInits => IsInitialized']_vars
    /\ [][(~IsAvailable /\ mgrCreated' = mgrCreated + 1) =>
            \A id \in Ids :
                id = mgrCreated + 1 =>
                    /\ GetTask(id)' = id
                    /\ GetAllTasks' = Append(GetAllTasks, id)]_vars
    /\ [][(~IsAvailable /\ mgrDeleted' # mgrDeleted) =>
            /\ \A id \in mgrDeleted' \ mgrDeleted : GetTask(id)' = Undefined
            /\ GetTaskCount' = GetTaskCount - 1
            /\ idbQueue' = idbQueue]_vars
    /\ [][(~IsAvailable /\ mgrClearing # <<>> /\ mgrClearing' = Tail(mgrClearing)
             /\ taskStatus[Head(mgrClearing)] \in Terminal) =>
            \A id \in Ids :
                id = Head(mgrClearing) => GetTask(id)' = Undefined]_vars
    /\ [][(~IsAvailable /\ tasks' = tasks /\ mgrClearing' = mgrClearing) =>
            \A id \in Members(tasks) :
                /\ (taskStatus[id] = "uploading" /\ taskStatus'[id] = "paused") =>
                      \A j \in Members(tasks) : taskStatus'[j] # "uploading"
                /\ (taskStatus[id] = "paused" /\ taskStatus'[id] = "uploading") =>
                      \A j \in Members(tasks) : taskStatus'[j] # "paused"
                /\ (taskStatus[id] \in {"uploading", "paused"}
                        /\ taskStatus'[id] = "cancelled") =>
                      \A j \in Members(tasks) :
                          taskStatus'[j] \notin {"uploading", "paused"}]_vars

\* the store failed to open, init() returned, and since then tasks were
\* created, one was paused and another deleted, all without the store
C19_Witness ==
    /\ IsInitialized
    /\ mgrCloses = 0
    /\ ~IsAvailable
    /\ mgrInits = 0
    /\ mgrCreated = MaxTasks
    /\ mgrDeleted # {}
    /\ \E id \in Members(tasks) : taskStatus[id] = "paused"

\* C20: until close() is called, getTaskCount() is the number of tasks
\* created and not deleted, getTask(id) is the task with that id if it was
\* created and not deleted and undefined otherwise, and getAllTasks() lists
\* the tasks created and not deleted in the order of their creation.
C20_RegistryMatches ==
    mgrCloses = 0 =>
        /\ GetTaskCount = Cardinality(Live)
        /\ \A id \in Ids : GetTask(id) = IF id \in Live THEN id ELSE Undefined
        /\ GetAllTasks = Ascending(Live)

\* two tasks were created, the first was deleted and the second is listed
C20_Witness ==
    /\ mgrCloses = 0
    /\ mgrDeleted = {1}
    /\ GetAllTasks = <<2>>
\* C21: deleteTask(id) cancels the task it removes when the task is
\* uploading or paused and leaves the status of a terminal task alone; the
\* task is removed in either case, and a failure of the deleteRecord that
\* follows changes neither the registry nor the outcome of the call.
C21_DeleteCancelsActive ==
    /\ [][\A id \in Ids :
            id \in mgrDeleted' \ mgrDeleted =>
                /\ taskStatus[GetTask(id)] \in {"uploading", "paused"} =>
                      taskStatus'[GetTask(id)] = "cancelled"
                /\ taskStatus[GetTask(id)] \in Terminal =>
                      taskStatus'[GetTask(id)] = taskStatus[GetTask(id)]
                /\ GetTask(id)' = Undefined]_vars
    /\ [][(mgrFailed' /\ ~mgrFailed) =>
            /\ tasks' = tasks
            /\ ~mgrThrew'
            /\ \A id \in mgrDeleted : GetTask(id)' = Undefined]_vars

\* a paused task was deleted, which cancelled it, and the deletion of its
\* record failed
C21_Witness ==
    /\ mgrFailed
    /\ \E id \in mgrDeleted : taskStatus[id] = "cancelled" /\ GetTask(id) = Undefined
    /\ mgrCloses = 0

Found == IF mgrResume.id \in DOMAIN store THEN store[mgrResume.id] ELSE NoRecord

\* getRecord answers the call under way
Answered ==
    /\ mgrResume.phase = "get"
    /\ mgrResume'.phase # "get"
    /\ mgrResume'.result # "Failed to get record"

C24_FailureChangesNothing ==
    [][((mgrResume'.phase = "done" /\ mgrResume.phase \in {"none", "done", "get"}
            /\ mgrResume' # mgrResume)
         \/ (mgrResume'.phase = "get" /\ mgrResume.phase # "get")) =>
         /\ tasks' = tasks
         /\ taskStatus' = taskStatus
         /\ taskKey' = taskKey
         /\ mgrCreated' = mgrCreated
         /\ hooked' = <<>>
         /\ store' = store
         /\ \A i \in 1..Len(idbQueue') : idbQueue'[i].op = "get"]_vars

\* a call for a stored record failed on a mismatch, on a manager with a
\* plugin that has hooks
C24_Witness ==
    /\ mgrResume.phase = "done"
    /\ mgrResume.result = "File type mismatch"
    /\ Found # NoRecord
    /\ \E i \in 1..Len(plugins) : plugins[i].has
    /\ tasks = <<>>

\* C25: past the validation resumeTask makes a task with the id asked for,
\* idle, with the stored token and uploaded chunks, registers it under that
\* id and asks the store to delete the record; whether that deletion succeeds
\* or fails, the call returns that task, still registered, without error.
C25_ResumedTask ==
    /\ [][(Answered /\ mgrResume'.phase = "delete") =>
            \A id \in TaskIds \cup OtherIds :
                id = mgrResume.id =>
                    /\ GetTask(id)' = mgrResume'.task
                    /\ mgrResume'.task # Undefined
                    /\ taskKey'[mgrResume'.task] = id
                    /\ taskStatus'[mgrResume'.task] = "idle"
                    /\ taskSeed'[mgrResume'.task].uploadToken = Found.uploadToken
                    /\ taskSeed'[mgrResume'.task].uploadedChunks = Found.uploadedChunks
                    /\ idbQueue' = <<Txn("delete", id, NoRecord, NoPatch, ResumeCaller)>>]_vars
    /\ [][(mgrResume.phase = "delete" /\ mgrResume'.phase # "delete") =>
            \A id \in TaskIds \cup OtherIds :
                id = mgrResume.id =>
                    /\ mgrResume'.phase = "done"
                    /\ mgrResume'.result = "ok"
                    /\ mgrResume'.task = mgrResume.task
                    /\ GetTask(id)' = mgrResume.task
                    /\ taskStatus'[mgrResume.task] = "idle"
                    /\ store'[id] = NoRecord \/ (mgrFailed' /\ store' = store)]_vars

\* a record with an uploaded chunk was resumed and the deletion of the
\* record failed: the call returned the task, and the record is still there
C25_Witness ==
    /\ mgrResume.phase = "done"
    /\ mgrResume.result = "ok"
    /\ mgrFailed
    /\ Found # NoRecord
    /\ GetTask(mgrResume.id) = mgrResume.task
    /\ taskSeed[mgrResume.task].uploadedChunks = {0}
    /\ taskSeed[mgrResume.task].uploadToken = "tokA"

\* ------------------------------------------------- properties of the plugins
\* the calls of hook on task o that reach every plugin having hooks, in
\* use() order
Expected(hook, o) ==
    LET has == SelectSeq([i \in 1..Len(plugins) |-> i], LAMBDA i : plugins[i].has)
    IN  [k \in 1..Len(has) |-> <<hook, has[k], o>>]

\* the hook a change of status calls
HookFor(from, to) ==
    CASE to = "idle" -> "onTaskCreated"
      [] to = "uploading" /\ from = "idle" -> "onTaskStart"
      [] to = "uploading" /\ from = "paused" -> "onTaskResume"
      [] to = "paused" -> "onTaskPause"
      [] to = "cancelled" -> "onTaskCancel"
      [] to = "success" -> "onTaskSuccess"
      [] to = "error" -> "onTaskError"

\* the calls of a log that concern task o
CallsIn(log, o) == SelectSeq(log, LAMBDA e : e[3] = o)

\* C26: when a task is created or changes its status, the hook of that
\* event is called on every plugin that has hooks, in use() order, plugins
\* that throw included; nothing a hook throws leaves the manager, and the
\* created task is registered.
C26_HooksInOrder ==
    /\ [](~mgrThrew)
    /\ [][\A o \in Ids :
            /\ CallsIn(hooked', o) =
                  IF taskStatus'[o] # taskStatus[o]
                  THEN Expected(HookFor(taskStatus[o], taskStatus'[o]), o)
                  ELSE <<>>
            /\ (taskStatus[o] = "none" /\ taskStatus'[o] # "none") =>
                  o \in Members(tasks')]_vars

\* a task was started on a manager whose first plugin throws in its hooks:
\* both plugins were called, the first before the second
C26_Witness ==
    /\ Len(plugins) = 2
    /\ plugins[1].has /\ plugins[1].throws
    /\ plugins[2].has
    /\ \E o \in Ids : hooked = <<<<"onTaskStart", 1, o>>, <<"onTaskStart", 2, o>>>>

\* the hooks of the terminal events and the status each one announces
TerminalHooks ==
    {<<"onTaskSuccess", "success">>, <<"onTaskError", "error">>,
     <<"onTaskCancel", "cancelled">>}

\* C29: a hook of a terminal event is called for a task only in the step
\* that takes the task from a status that is not terminal into the status
\* of that event, once per plugin in that step, and a task in a terminal
\* status stays in it: so each of onTaskSuccess, onTaskError and
\* onTaskCancel is called at most once per task and plugin, whatever
\* cancel(), cancelAll(), deleteTask() and close() calls follow.
C29_TerminalHooksOnce ==
    /\ [][\A k \in 1..Len(hooked') : \A t \in TerminalHooks :
            hooked'[k][1] = t[1] =>
                /\ taskStatus[hooked'[k][3]] \notin Terminal
                /\ taskStatus'[hooked'[k][3]] = t[2]
                /\ \A j \in 1..Len(hooked') : hooked'[j] = hooked'[k] => j = k]_vars
    /\ [][\A o \in Ids :
            taskStatus[o] \in Terminal => taskStatus'[o] = taskStatus[o]]_vars

\* a cancelled task with two plugins, after which cancelAll() and close()
\* ran again: the latest step called no hook
C29_Witness ==
    /\ Len(plugins) = 2
    /\ plugins[1].has /\ plugins[2].has
    /\ mgrCloses = 1
    /\ mgrDeleted # {}
    /\ \A o \in Ids : taskStatus[o] = "cancelled"
    /\ hooked = <<>>

\* ------------------------------------------------- properties of progress
\* C28: the uploadedBytes of a progress event is at least the uploadedBytes
\* before it, and uploadedBytes changes only where a progress event is
\* emitted: so the uploadedBytes of successive progress events, which is
\* what the onTaskProgress hooks are handed, never decreases.
C28_ProgressMonotone ==
    /\ [][("progress" \in emitted') =>
            UploadedBytes(uploaded') >= UploadedBytes(uploaded)]_vars
    /\ [][("progress" \notin emitted') => uploaded' = uploaded]_vars

\* the second chunk of a file was uploaded before the first, which is at
\* its second attempt, while the task is paused: its progress event has
\* just been emitted
C28_Witness ==
    /\ "progress" \in emitted
    /\ status = "paused"
    /\ plan = 2
    /\ uploaded = {1}
    /\ \E f \in Fns : unit[f].chunk = 0 /\ unit[f].attempt > 1

\* ------------------------------------------------- properties of the event bus
\* C27: emit calls every handler subscribed to the event, in on() order,
\* whether or not one of them throws.
C27_EmitCallsAll ==
    busLog.type # "none" => busLog.called = Subscribed(handlers, busLog.type)

\* ------------------------------------------------- properties of the file endpoint
\* C30: for a completed file of size N that the service finds, a request
\* with Range: bytes=s-e, 0 <= s <= e < N, is answered with 206,
\* Content-Range bytes s-e/N, Content-Length e - s + 1 and Accept-Ranges
\* bytes, and the service is asked for [s, e]; a request without a Range
\* header is answered with 200 and Content-Length N.
C30_RangeReply ==
    (httpLast.status # 0 /\ httpLast.req.completed /\ httpLast.req.found) =>
        LET h == httpLast.req.header
            N == httpLast.req.size
        IN  /\ (h.kind = "bytes" /\ h.end # Open /\ h.start <= h.end /\ h.end < N) =>
                  /\ httpLast.status = 206
                  /\ httpLast.contentRange = [start |-> h.start, end |-> h.end]
                  /\ httpLast.total = N
                  /\ httpLast.contentLength = h.end - h.start + 1
                  /\ httpLast.acceptRanges = "bytes"
                  /\ httpLast.asked = [start |-> h.start, end |-> h.end]
            /\ h.kind = "none" =>
                  /\ httpLast.status = 200
                  /\ httpLast.contentLength = N
                  /\ httpLast.asked = NoRange

\* bytes=1-1 of a file of three bytes was asked for and answered with 206
C30_Witness ==
    /\ httpLast.status = 206
    /\ httpLast.req.size = 3
    /\ httpLast.req.header = [kind |-> "bytes", start |-> 1, end |-> 1]
    /\ httpLast.contentLength = 1

\* ------------------------------------------------- properties of the counts
\* C34: activeCount is the number of functions submitted through run that
\* have started and not settled, and pendingCount the number of those that
\* have neither started nor been cleared.
C34_CountsMatch ==
    /\ ActiveCount = Cardinality({f \in Fns : fns[f].st = "running"})
    /\ PendingCount = Cardinality({f \in Fns : fns[f].st = "queued"})

\* ------------------------------------------------- properties of updateRecord
\* C38: a record appears under a key that had none only through a
\* saveRecord call, never through the write of an updateRecord; and an
\* updateRecord that finds no record fails with OPERATION_FAILED.
C38_UpdateNeverCreates ==
    /\ [][\A k \in TaskIds :
            (store[k] = NoRecord /\ store'[k] # NoRecord) =>
                calls[Head(idbQueue).call].op = "save"]_vars
    /\ [][(Runs("get") /\ store[Head(idbQueue).key] = NoRecord) =>
            calls'[Head(idbQueue).call].result = "OPERATION_FAILED"]_vars

\* ------------------------------------------------- properties of cancelAll
\* cancelAll() returns in this step
CancelAllReturns ==
    /\ taskStatus' # taskStatus
    /\ mgrReturned'.kind = "count"
    /\ mgrReturned'.to = "cancelled"

StatsReturned == mgrReturned.kind = "stats"

\* the registered tasks reporting the given status
Reporting(which) == {o \in Members(tasks) : taskStatus[o] = which}

C39_PartialReplyWellFormed ==
    httpLast.status = 206 =>
        /\ 0 <= httpLast.contentRange.start
        /\ httpLast.contentRange.start <= httpLast.contentRange.end
        /\ httpLast.contentRange.end < httpLast.total
        /\ httpLast.contentLength >= 1

\* ------------------------------------------- properties of the task registry
\* the task objects made under id that are neither deleted nor terminal
LiveUnder(id) ==
    {o \in Ids : /\ taskKey[o] = id
                 /\ o \notin mgrDeleted
                 /\ taskStatus[o] \in {"idle", "uploading", "paused"}}

\* C37: for every id there is at most one task object made by createTask or
\* resumeTask that is neither deleted nor terminal, it is the one getTask(id)
\* returns, and resumeTask never replaces a registered task that is idle,
\* uploading or paused.
C37_OneLiveTaskPerId ==
    /\ [](\A id \in TaskIds :
            /\ Cardinality(LiveUnder(id)) <= 1
            /\ \A o \in LiveUnder(id) : GetTask(id) = o)
    /\ [][\A id \in TaskIds :
            (GetTask(id) \in LiveUnder(id) /\ mgrResume.phase = "get")
                => GetTask(id)' = GetTask(id)]_vars

\* ------------------------------------------------ properties of getStats()
\* getStats() has just returned
GotStats == pluginStats.kind = "stats" /\ pluginStats.returned.kind = "stats"

\* the quotient q is n / d
IsQuotient(q, n, d) == q.num * d = n * q.den

\* the tasks that completed since construction or the latest reset
CompletedCount ==
    pluginStats.successCount + pluginStats.errorCount + pluginStats.cancelledCount

\* C31 as stated: the successRate getStats() reports is
\* successes / (successes + errors + cancels), counted since construction
\* or the latest reset.
C31_SuccessRateIsRatio ==
    (GotStats /\ CompletedCount > 0) =>
        IsQuotient(pluginStats.returned.successRate,
                   pluginStats.successCount, CompletedCount)

\* C31, amended: the successRate getStats() reports is the percentage
\* 100 * successes / (successes + errors + cancels), counted since
\* construction or the latest reset, and 0 when that sum is 0.
C31_SuccessRateIsPercentage ==
    GotStats =>
        IF CompletedCount > 0
        THEN IsQuotient(pluginStats.returned.successRate,
                        100 * pluginStats.successCount, CompletedCount)
        ELSE IsQuotient(pluginStats.returned.successRate, 0, 1)

\* getStats() after one success and one error: 50 per cent
C31_Witness ==
    /\ GotStats
    /\ pluginStats.successCount = 1
    /\ pluginStats.errorCount = 1
    /\ pluginStats.cancelledCount = 0
    /\ pluginStats.returned.successRate = [num |-> 100, den |-> 2]

\* ------------------------------------------- properties of the TCP-style adjuster
\* the step is an adjust call with a time below half the target time
FastAdjust ==
    /\ tcp'.calls = tcp.calls + 1
    /\ tcp'.time >= 0
    /\ tcp'.time < tcp.options.targetTime

\* C36: adjust(t) with 0 <= t < 0.5 * targetTime never makes the size
\* smaller, in every congestion state and for every accepted configuration.
C36_FastNeverShrinks ==
    [][FastAdjust =>
        /\ tcp'.currentSize >= tcp.currentSize
        /\ tcp'.returned = tcp'.currentSize]_vars

\* ------------------------------------------------------ properties of init()
\* C32: init() is idempotent for any number of calls, overlapping ones
\* included: the store is opened at most once, the unfinished records are
\* loaded at most once, and isInitialized() is true once any call completed.
C32_InitOnce ==
    boot.kind = "boot" =>
        /\ boot.opens <= 1
        /\ boot.loads <= 1
        /\ boot.returned > 0 => IsInitialized

\* C33: with autoResumeUnfinished, after init() the manager holds a task
\* entry in paused state for every unfinished record of the store.
C33_UnfinishedTasksLoaded ==
    (boot.kind = "boot" /\ boot.autoResume /\ boot.returned > 0 /\ IsAvailable) =>
        \A k \in TaskIds :
            store[k] # NoRecord =>
                /\ GetTask(k) # Undefined
                /\ taskStatus[GetTask(k)] = "paused"
====
